---------------------------- MODULE Spec2Model ----------------------------
(***************************************************************************)
(* A model of the client-side form validation engine of Music ConnectZ     *)
(* (src/public/js/validation.js, class ValidationManager): the rule        *)
(* registry, the chain evaluator validateField, the renderer updateFieldUI,*)
(* the event wiring of initForm, resetForm and the file-input validation.  *)
(*                                                                         *)
(* A JavaScript string is a sequence of one-character strings, so that     *)
(* trim, split, parseInt and the regular expressions are computed, not     *)
(* assumed.  A JavaScript value handed to a validator is a record          *)
(* [t, s, el]: a string (t = "str", s its characters), a DOM element       *)
(* (t = "obj", el its position in the document) or undefined.              *)
(***************************************************************************)
EXTENDS Integers, Sequences, FiniteSets, TLC

\* ------------------------------------------------------------------ bounds

\* Longest value a user types into a text field.
MaxLen == 1

\* Most initForm calls on the form.
MaxInit == 1

\* Most setupFileValidation calls on a file input.
MaxSetup == 1

\* Most rules in a generated rule chain (specification ChainSpec).
MaxChain == 2

\* Most initForm calls on the form in specification RepeatSpec.
MaxRepeat == 2

\* Most transactions in a reply to the transaction-history request.
MaxTxn == 3

\* ----------------------------------------------------- characters, strings

Digit == {"0", "1", "2", "3", "4", "5", "6", "7", "8", "9"}

Lower == {"a", "b", "c", "d", "e", "f", "g", "h", "i", "j", "k", "l", "m",
          "n", "o", "p", "q", "r", "s", "t", "u", "v", "w", "x", "y", "z"}

Upper == {"A", "B", "C", "D", "E", "F", "G", "H", "I", "J", "K", "L", "M",
          "N", "O", "P", "Q", "R", "S", "T", "U", "V", "W", "X", "Y", "Z"}

\* What String.prototype.trim strips and the regular expressions' \s matches.
WhiteSpace == {" "}

\* All strings over the characters cs of length at most n.
Strings(cs, n) == UNION {[1..k -> cs] : k \in 0..n}

Tail2(s, i) == SubSeq(s, i, Len(s))

\* String.prototype.trim
RECURSIVE TrimLeft(_)
TrimLeft(s) ==
  IF s # <<>> /\ Head(s) \in WhiteSpace THEN TrimLeft(Tail(s)) ELSE s

RECURSIVE TrimRight(_)
TrimRight(s) ==
  IF s # <<>> /\ s[Len(s)] \in WhiteSpace
  THEN TrimRight(SubSeq(s, 1, Len(s) - 1)) ELSE s

Trim(s) == TrimRight(TrimLeft(s))

\* The first index of character c in s, 0 when there is none.
IndexOf(s, c) ==
  IF \E i \in 1..Len(s) : s[i] = c
  THEN CHOOSE i \in 1..Len(s) : s[i] = c /\ \A j \in 1..(i - 1) : s[j] # c
  ELSE 0

\* String.prototype.split(sep) for a one-character separator: the pieces
\* between the separators, one (empty) piece for the empty string.
RECURSIVE Split(_, _)
Split(s, sep) ==
  LET i == IndexOf(s, sep)
  IN IF i = 0 THEN <<s>>
     ELSE <<SubSeq(s, 1, i - 1)>> \o Split(Tail2(s, i + 1), sep)

\* Array.prototype.join(sep) for a one-character separator.
RECURSIVE Join(_, _)
Join(ps, sep) ==
  IF ps = <<>> THEN <<>>
  ELSE IF Len(ps) = 1 THEN ps[1]
  ELSE ps[1] \o <<sep>> \o Join(Tail(ps), sep)

\* String.prototype.toLowerCase on the letters of the model's alphabets.
LowerOf(c) ==
  LET UpperSeq == <<"A", "B", "C", "D", "E", "F", "G", "H", "I", "J", "K", "L", "M",
                    "N", "O", "P", "Q", "R", "S", "T", "U", "V", "W", "X", "Y", "Z">>
      LowerSeq == <<"a", "b", "c", "d", "e", "f", "g", "h", "i", "j", "k", "l", "m",
                    "n", "o", "p", "q", "r", "s", "t", "u", "v", "w", "x", "y", "z">>
  IN IF c \in Upper THEN LowerSeq[CHOOSE i \in 1..26 : UpperSeq[i] = c] ELSE c

ToLowerCase(s) == [i \in 1..Len(s) |-> LowerOf(s[i])]

\* ------------------------------------------------------------------ numbers

\* A JavaScript number: not-a-number, or (in this model) an integer.
NaN == [nan |-> TRUE, n |-> 0]

Num(n) == [nan |-> FALSE, n |-> n]

\* The comparisons of two numbers: false as soon as one is NaN.
NumLt(a, b) == ~a.nan /\ ~b.nan /\ a.n < b.n

NumGt(a, b) == ~a.nan /\ ~b.nan /\ a.n > b.n

NumGe(a, b) == ~a.nan /\ ~b.nan /\ a.n >= b.n

NumLe(a, b) == ~a.nan /\ ~b.nan /\ a.n <= b.n

DigitVal(c) ==
  CASE c = "0" -> 0 [] c = "1" -> 1 [] c = "2" -> 2 [] c = "3" -> 3
    [] c = "4" -> 4 [] c = "5" -> 5 [] c = "6" -> 6 [] c = "7" -> 7
    [] c = "8" -> 8 [] c = "9" -> 9

DigitChar(d) == <<"0", "1", "2", "3", "4", "5", "6", "7", "8", "9">>[d + 1]

\* The longest prefix of s made of digits.
RECURSIVE DigitPrefix(_)
DigitPrefix(s) ==
  IF s # <<>> /\ Head(s) \in Digit THEN <<Head(s)>> \o DigitPrefix(Tail(s))
  ELSE <<>>

RECURSIVE DigitsValue(_)
DigitsValue(ds) ==
  IF ds = <<>> THEN 0
  ELSE 10 * DigitsValue(SubSeq(ds, 1, Len(ds) - 1)) + DigitVal(ds[Len(ds)])

\* parseInt(s) and, on the model's alphabets (no ".", no exponent, no
\* "Infinity", no "0x"), parseFloat(s): leading white space is skipped, then
\* an optional sign and the longest run of digits are read; NaN without a
\* digit.
ParseDecimal(s) ==
  LET t == TrimLeft(s)
      neg == t # <<>> /\ Head(t) = "-"
      u == IF t # <<>> /\ Head(t) \in {"-", "+"} THEN Tail(t) ELSE t
      ds == DigitPrefix(u)
  IN IF ds = <<>> THEN NaN
     ELSE Num(IF neg THEN 0 - DigitsValue(ds) ELSE DigitsValue(ds))

\* Number-to-string conversion of a template literal, `${n}`.
RECURSIVE NatToStr(_)
NatToStr(n) ==
  IF n < 10 THEN <<DigitChar(n)>>
  ELSE NatToStr(n \div 10) \o <<DigitChar(n % 10)>>

NumToStr(x) ==
  IF x.nan THEN <<"N", "a", "N">>
  ELSE IF x.n < 0 THEN <<"-">> \o NatToStr(0 - x.n)
  ELSE NatToStr(x.n)

\* --------------------------------------------------- the source's literals

\* The string literals of the source, each a sequence of characters: the
\* keys of this.validators, names every object inherits, the password
\* tiers, the pieces of messages, and MIME types and extensions of files.
Lit ==
  [required |-> <<"r", "e", "q", "u", "i", "r", "e", "d">>,
   email |-> <<"e", "m", "a", "i", "l">>,
   phone |-> <<"p", "h", "o", "n", "e">>,
   url |-> <<"u", "r", "l">>,
   minLength |-> <<"m", "i", "n", "L", "e", "n", "g", "t", "h">>,
   maxLength |-> <<"m", "a", "x", "L", "e", "n", "g", "t", "h">>,
   number |-> <<"n", "u", "m", "b", "e", "r">>,
   date |-> <<"d", "a", "t", "e">>,
   password |-> <<"p", "a", "s", "s", "w", "o", "r", "d">>,
   match |-> <<"m", "a", "t", "c", "h">>,
   toString |-> <<"t", "o", "S", "t", "r", "i", "n", "g">>,
   proto |-> <<"_", "_", "p", "r", "o", "t", "o", "_", "_">>,
   defineGetter |-> <<"_", "_", "d", "e", "f", "i", "n", "e", "G", "e",
       "t", "t", "e", "r", "_", "_">>,
   defineSetter |-> <<"_", "_", "d", "e", "f", "i", "n", "e", "S", "e",
       "t", "t", "e", "r", "_", "_">>,
   lookupGetter |-> <<"_", "_", "l", "o", "o", "k", "u", "p", "G", "e",
       "t", "t", "e", "r", "_", "_">>,
   lookupSetter |-> <<"_", "_", "l", "o", "o", "k", "u", "p", "S", "e",
       "t", "t", "e", "r", "_", "_">>,
   weak |-> <<"w", "e", "a", "k">>,
   medium |-> <<"m", "e", "d", "i", "u", "m">>,
   strong |-> <<"s", "t", "r", "o", "n", "g">>,
   ThisField |-> <<"T", "h", "i", "s", " ", "f", "i", "e", "l", "d">>,
   objectElement |-> <<"[", "o", "b", "j", "e", "c", "t", " ", "H", "T",
       "M", "L", "I", "n", "p", "u", "t", "E", "l", "e", "m", "e", "n",
       "t", "]">>,
   undefined |-> <<"u", "n", "d", "e", "f", "i", "n", "e", "d">>,
   imagePng |-> <<"i", "m", "a", "g", "e", "/", "p", "n", "g">>,
   png |-> <<".", "p", "n", "g">>,
   fakepath |-> <<"C", ":", "\\", "f", "a", "k", "e", "p", "a", "t", "h",
       "\\">>,
   applicationZip |-> <<"a", "p", "p", "l", "i", "c", "a", "t", "i", "o",
       "n", "/", "z", "i", "p">>]

\* ------------------------------------------------------ JavaScript values

Str(s) == [t |-> "str", s |-> s, el |-> 0]

Obj(e) == [t |-> "obj", s |-> <<>>, el |-> e]

Undefined == [t |-> "undef", s |-> <<>>, el |-> 0]

\* String(v): an input element prints as "[object HTMLInputElement]".
ToStr(v) ==
  CASE v.t = "str" -> v.s
    [] v.t = "obj" -> Lit.objectElement
    [] OTHER -> Lit.undefined

\* ToBoolean(v)
Truthy(v) ==
  CASE v.t = "str" -> v.s # <<>>
    [] v.t = "obj" -> TRUE
    [] OTHER -> FALSE

\* The i-th argument of a call: undefined past the arguments given.
Arg(args, i) == IF i <= Len(args) THEN args[i] ELSE Undefined

\* A message: a template literal with at most one interpolated string, or
\* undefined (def = FALSE), the `message` of a result that carries none.
Msg(tpl, arg) == [def |-> TRUE, tpl |-> tpl, arg |-> arg]

NoMsg == [def |-> FALSE, tpl |-> "", arg |-> <<>>]

EmptyMsg == Msg("", <<>>)

\* What a validator call comes to: it threw, or it returned a value whose
\* `valid` is truthy or falsy and whose `message` is a string or undefined.
Result(ok, message) == [threw |-> FALSE, valid |-> ok, message |-> message]

\* return { valid: true }
ResultValid == Result(TRUE, NoMsg)

\* return { valid: isValid, message: isValid ? '' : message }
ResultOf(isValid, message) ==
  Result(isValid, IF isValid THEN EmptyMsg ELSE message)

\* A returned value that is no result object: reading .valid and .message
\* gives undefined.
NonResult == Result(FALSE, NoMsg)

\* An exception (a TypeError) left the call.
Thrown == [threw |-> TRUE, valid |-> FALSE, message |-> NoMsg]

\* document.getElementById(id): the first element with that id, 0 for null.
GetElementById(d, id) ==
  IF \E e \in 1..Len(d.id) : d.id[e] = id
  THEN CHOOSE e \in 1..Len(d.id) :
         d.id[e] = id /\ \A j \in 1..(e - 1) : d.id[j] # id
  ELSE 0

\* ------------------------------------------------------------- validators
\* Each validator is called as validator.call(this, value, ...params, field):
\* args[1] is the trimmed value; d is the document the call can read.

\* /^[^\s@]+@[^\s@]+\.[^\s@]+$/
EmailPart(s) == s # <<>> /\ \A i \in 1..Len(s) : s[i] \notin (WhiteSpace \cup {"@"})

EmailRegex(s) ==
  \E i \in 1..Len(s) : \E j \in (i + 1)..Len(s) :
    /\ s[i] = "@"
    /\ s[j] = "."
    /\ EmailPart(SubSeq(s, 1, i - 1))
    /\ EmailPart(SubSeq(s, i + 1, j - 1))
    /\ EmailPart(Tail2(s, j + 1))

validateEmail(d, args) ==
  LET value == args[1].s
  IN IF value = <<>> THEN ResultValid
     ELSE ResultOf(EmailRegex(value),
                   Msg("Please enter a valid email address", <<>>))

\* value.replace(/\D/g, '')
DigitsOf(s) == SelectSeq(s, LAMBDA c : c \in Digit)

validatePhone(d, args) ==
  LET value == args[1].s
      digits == DigitsOf(value)
  IN IF value = <<>> THEN ResultValid
     ELSE ResultOf(Len(digits) >= 10 /\ Len(digits) <= 15,
                   Msg("Please enter a valid phone number", <<>>))

\* Whether new URL(s) succeeds, for a string without "/", "\", "?" and "#"
\* whose scheme is not one of the special schemes (http, https, ftp, ws, wss,
\* file), as are all strings over the model's alphabets: the string must start
\* with a scheme (a letter, then letters, digits, "+", "-", "."), then ":";
\* what follows is an opaque path, which never fails to parse.
SchemeChar == Lower \cup Upper \cup Digit \cup {"+", "-", "."}

UrlParses(s) ==
  LET i == IndexOf(s, ":")
  IN /\ i >= 2
     /\ s[1] \in Lower \cup Upper
     /\ \A j \in 2..(i - 1) : s[j] \in SchemeChar

validateURL(d, args) ==
  LET value == args[1].s
  IN IF value = <<>> THEN ResultValid
     ELSE IF UrlParses(value) THEN ResultValid
     ELSE Result(FALSE,
                 Msg("Please enter a valid URL (e.g., https://example.com)", <<>>))

validateRequired(d, args) ==
  LET value == args[1].s
      fieldName == Arg(args, 2)
  IN ResultOf(Len(value) > 0,
              Msg("{} is required",
                  IF Truthy(fieldName) THEN ToStr(fieldName) ELSE Lit.ThisField))

\* validateMinLength without its `if (!value)` guard.
validateMinLengthNoGuard(d, args) ==
  ResultOf(NumGe(Num(Len(args[1].s)), ParseDecimal(ToStr(Arg(args, 2)))),
           Msg("Must be at least {} characters",
               NumToStr(ParseDecimal(ToStr(Arg(args, 2))))))

validateMinLength(d, args) ==
  LET value == args[1].s
      min == ParseDecimal(ToStr(Arg(args, 2)))
  IN IF value = <<>> THEN ResultValid
     ELSE ResultOf(NumGe(Num(Len(value)), min),
                   Msg("Must be at least {} characters", NumToStr(min)))

\* validateMaxLength with the limit exclusive.
validateMaxLengthExclusive(d, args) ==
  IF args[1].s = <<>> THEN ResultValid
  ELSE ResultOf(NumLt(Num(Len(args[1].s)), ParseDecimal(ToStr(Arg(args, 2)))),
                Msg("Must not exceed {} characters",
                    NumToStr(ParseDecimal(ToStr(Arg(args, 2))))))

validateMaxLength(d, args) ==
  LET value == args[1].s
      max == ParseDecimal(ToStr(Arg(args, 2)))
  IN IF value = <<>> THEN ResultValid
     ELSE ResultOf(NumLe(Num(Len(value)), max),
                   Msg("Must not exceed {} characters", NumToStr(max)))

\* validateNumber with both bounds exclusive.
validateNumberExclusive(d, args) ==
  IF args[1].s = <<>> THEN ResultValid
  ELSE IF ParseDecimal(args[1].s).nan
    THEN Result(FALSE, Msg("Please enter a valid number", <<>>))
  ELSE IF Arg(args, 2).t # "undef"
          /\ NumLe(ParseDecimal(args[1].s), ParseDecimal(ToStr(Arg(args, 2))))
    THEN Result(FALSE, Msg("Must be at least {}",
                           NumToStr(ParseDecimal(ToStr(Arg(args, 2))))))
  ELSE IF Arg(args, 3).t # "undef"
          /\ NumGe(ParseDecimal(args[1].s), ParseDecimal(ToStr(Arg(args, 3))))
    THEN Result(FALSE, Msg("Must not exceed {}",
                           NumToStr(ParseDecimal(ToStr(Arg(args, 3))))))
  ELSE ResultValid

validateNumber(d, args) ==
  LET value == args[1].s
      min == Arg(args, 2)
      max == Arg(args, 3)
      num == ParseDecimal(value)
      minNum == ParseDecimal(ToStr(min))
      maxNum == ParseDecimal(ToStr(max))
  IN IF value = <<>> THEN ResultValid
     ELSE IF num.nan THEN Result(FALSE, Msg("Please enter a valid number", <<>>))
     ELSE IF min.t # "undef" /\ NumLt(num, minNum)
       THEN Result(FALSE, Msg("Must be at least {}", NumToStr(minNum)))
     ELSE IF max.t # "undef" /\ NumGt(num, maxNum)
       THEN Result(FALSE, Msg("Must not exceed {}", NumToStr(maxNum)))
     ELSE ResultValid


\* new Date(s).getTime(), as an order-preserving day key. The date-only ISO
\* forms YYYY, YYYY-MM and YYYY-MM-DD are read as ECMAScript fixes them. Any
\* other string goes to the engine's implementation-defined fallback: no
\* engine makes a date of a string without a digit (NaN), and what it makes
\* of a string with one is d.legacyDate, the engine's choice in this run.
IsDigits(s) == \A i \in 1..Len(s) : s[i] \in Digit

DaysInMonth(y, m) ==
  IF m = 2 THEN (IF (y % 4 = 0 /\ y % 100 # 0) \/ y % 400 = 0 THEN 29 ELSE 28)
  ELSE IF m \in {4, 6, 9, 11} THEN 30 ELSE 31

DayKey(y, m, day) == Num(y * 372 + (m - 1) * 31 + (day - 1))

IsoDateParts(s) ==
  LET p == Split(s, "-")
      shaped == /\ Len(p) \in 1..3
                /\ Len(p[1]) = 4 /\ IsDigits(p[1])
                /\ \A k \in 2..Len(p) : Len(p[k]) = 2 /\ IsDigits(p[k])
      y == IF shaped THEN DigitsValue(p[1]) ELSE 0
      m == IF shaped /\ Len(p) >= 2 THEN DigitsValue(p[2]) ELSE 1
      day == IF shaped /\ Len(p) >= 3 THEN DigitsValue(p[3]) ELSE 1
  IN [ok |-> shaped /\ m \in 1..12 /\ day \in 1..DaysInMonth(y, m),
      y |-> y, m |-> m, day |-> day]

DateParse(d, s) ==
  LET iso == IsoDateParts(s)
  IN IF iso.ok THEN DayKey(iso.y, iso.m, iso.day)
     ELSE IF DigitsOf(s) = <<>> THEN NaN
     ELSE d.legacyDate

\* toLocaleDateString(): the rendering depends on the locale; the model keeps
\* only that it is a function of the date.
LocaleDateString(t) == NumToStr(t)

validateDate(d, args) ==
  LET value == args[1].s
      minDate == Arg(args, 2)
      maxDate == Arg(args, 3)
      date == DateParse(d, value)
      min == DateParse(d, ToStr(minDate))
      max == DateParse(d, ToStr(maxDate))
  IN IF value = <<>> THEN ResultValid
     ELSE IF date.nan THEN Result(FALSE, Msg("Please enter a valid date", <<>>))
     ELSE IF Truthy(minDate) /\ NumLt(date, min)
       THEN Result(FALSE, Msg("Date must be after {}", LocaleDateString(min)))
     ELSE IF Truthy(maxDate) /\ NumGt(date, max)
       THEN Result(FALSE, Msg("Date must be before {}", LocaleDateString(max)))
     ELSE ResultValid

\* The property names every object inherits from Object.prototype.
ObjectPrototypeNames ==
  { <<"c", "o", "n", "s", "t", "r", "u", "c", "t", "o", "r">>,
    Lit.toString,
    <<"t", "o", "L", "o", "c", "a", "l", "e", "S", "t", "r", "i", "n", "g">>,
    <<"v", "a", "l", "u", "e", "O", "f">>,
    <<"h", "a", "s", "O", "w", "n", "P", "r", "o", "p", "e", "r", "t", "y">>,
    <<"i", "s", "P", "r", "o", "t", "o", "t", "y", "p", "e", "O", "f">>,
    <<"p", "r", "o", "p", "e", "r", "t", "y", "I", "s", "E", "n", "u", "m", "e", "r", "a", "b", "l", "e">>,
    Lit.proto, Lit.defineGetter, Lit.defineSetter, Lit.lookupGetter, Lit.lookupSetter }

HasLower(s) == \E i \in 1..Len(s) : s[i] \in Lower

HasUpper(s) == \E i \in 1..Len(s) : s[i] \in Upper

HasDigit(s) == \E i \in 1..Len(s) : s[i] \in Digit

\* (?=.*[@$!%*?&])
HasSpecial(s) == \E i \in 1..Len(s) : s[i] \in {"@", "$", "!", "%", "*", "?", "&"}

\* rules[strength].pattern.test(value); the strings of the model hold no line
\* terminator, so "." matches every character.
PasswordPattern(strength, s) ==
  CASE strength = Lit.weak -> Len(s) >= 6
    [] strength = Lit.strong ->
         HasLower(s) /\ HasUpper(s) /\ HasDigit(s) /\ HasSpecial(s) /\ Len(s) >= 12
    [] OTHER -> HasLower(s) /\ HasUpper(s) /\ HasDigit(s) /\ Len(s) >= 8

PasswordMessage(strength) ==
  CASE strength = Lit.weak -> Msg("Password must be at least 6 characters", <<>>)
    [] strength = Lit.strong ->
         Msg("Password must be 12+ characters with uppercase, lowercase, number, and special character", <<>>)
    [] OTHER ->
         Msg("Password must be 8+ characters with uppercase, lowercase, and number", <<>>)

\* strength = 'medium' replaces an undefined argument only. rules[strength]
\* || rules.medium: a name the literal `rules` inherits from Object.prototype
\* is found and is no rule, and reading its undefined pattern's test throws.
validatePassword(d, args) ==
  LET value == args[1].s
      given == Arg(args, 2)
      strength == IF given.t = "undef" THEN Lit.medium ELSE ToStr(given)
      rule == IF strength \in {Lit.weak, Lit.medium, Lit.strong} THEN strength
              ELSE Lit.medium
  IN IF value = <<>> THEN ResultValid
     ELSE IF strength \in ObjectPrototypeNames THEN Thrown
     ELSE ResultOf(PasswordPattern(rule, value), PasswordMessage(rule))

\* validateMatch reporting a missing target as a mismatch.
validateMatchNoTarget(d, args) ==
  ResultOf(GetElementById(d, ToStr(Arg(args, 2))) # 0
           /\ args[1].s = d.value[GetElementById(d, ToStr(Arg(args, 2)))],
           Msg("Fields do not match", <<>>))

validateMatch(d, args) ==
  LET value == args[1].s
      targetFieldId == Arg(args, 2)
      targetField == GetElementById(d, ToStr(targetFieldId))
  IN IF targetField = 0 THEN Result(FALSE, Msg("Configuration error", <<>>))
     ELSE ResultOf(value = d.value[targetField], Msg("Fields do not match", <<>>))

\* ------------------------------------------------------- the rule registry

\* The keys of this.validators (the constructor).
BuiltinNames ==
  {Lit.email, Lit.phone, Lit.url, Lit.required, Lit.minLength, Lit.maxLength, Lit.number,
   Lit.date, Lit.password, Lit.match}

\* this.validators[validatorName] is truthy: an own key of the object
\* literal, or a property it inherits from Object.prototype.
IsRegistered(name) == name \in BuiltinNames \cup ObjectPrototypeNames

\* validator.call(this, value, ...params, field) for an inherited property,
\* with `this` the manager: __proto__ is an object without a call method, and
\* __defineGetter__ and __defineSetter__ reject their non-callable second
\* argument (a TypeError each); __lookupGetter__ and __lookupSetter__ return
\* undefined (the manager has no accessor named by a value of the model), so
\* reading result.valid throws; the others return a value (a string, a
\* boolean, a wrapper object, the manager) that has no `valid` and no
\* `message`.
CallInherited(name) ==
  IF name \in {Lit.proto, Lit.defineGetter, Lit.defineSetter, Lit.lookupGetter,
               Lit.lookupSetter}
  THEN Thrown ELSE NonResult

CallValidator(d, name, args) ==
  CASE name = Lit.email -> validateEmail(d, args)
    [] name = Lit.phone -> validatePhone(d, args)
    [] name = Lit.url -> validateURL(d, args)
    [] name = Lit.required -> validateRequired(d, args)
    [] name = Lit.minLength -> validateMinLength(d, args)
    [] name = Lit.maxLength -> validateMaxLength(d, args)
    [] name = Lit.number -> validateNumber(d, args)
    [] name = Lit.date -> validateDate(d, args)
    [] name = Lit.password -> validatePassword(d, args)
    [] name = Lit.match -> validateMatch(d, args)
    [] OTHER -> CallInherited(name)


\* ------------------------------------------------------------ the renderer
\* The document d: per element (in document order) its id, its data-validate
\* attribute, its parent element and its kind, which never change, and its
\* value, classes and aria-invalid attribute; per parent element the
\* error-message elements appended to it, in document order.

\* errorElement.textContent = errorMessage: undefined sets the empty string.
TextContent(message) == IF message.def THEN message ELSE EmptyMsg

\* The error-message element created for `field` (owner records which
\* call created it; the element itself carries only its text).
ErrorElement(field, message) == [text |-> TextContent(message), owner |-> field]

updateFieldUI(d, field, isValid, errorMessage, config) ==
  LET parent == d.parent[field]
      removed == d.cls[field] \ {"valid", "invalid"}
      \* parentElement.querySelector('.error-message') and remove()
      kept == IF d.errs[parent] # <<>> THEN Tail(d.errs[parent]) ELSE <<>>
  IN IF isValid
     THEN [d EXCEPT
             !.cls[field] =
                removed \cup {"valid"} \cup
                (IF config.showSuccessIndicator /\ d.value[field] # <<>>
                 THEN {"has-success-icon"} ELSE {}),
             !.aria[field] = "false",
             !.errs[parent] = kept]
     ELSE [d EXCEPT
             !.cls[field] = removed \cup {"invalid"},
             !.aria[field] = "true",
             !.errs[parent] = Append(kept, ErrorElement(field, errorMessage))]

\* ------------------------------------------------------ the chain evaluator

\* The for loop of validateField from rule i on: whether a validator threw,
\* isValid and errorMessage as the loop leaves them, and the indices of the
\* rules whose validator was called.
RECURSIVE RunChain(_, _, _, _, _)

\* const [validatorName, ...params] = rule.split(':')
RuleName(parts) == parts[1]

RuleParams(parts) == [k \in 1..(Len(parts) - 1) |-> Str(parts[k + 1])]

\* validator.call(this, value, ...params, field) for the rule split in parts
CallRule(d, field, parts, value) ==
  CallValidator(d, RuleName(parts),
                <<Str(value)>> \o RuleParams(parts) \o <<Obj(field)>>)

\* The end of the loop: isValid and errorMessage as initialized.
ChainEnd ==
  [threw |-> FALSE, isValid |-> TRUE, errorMessage |-> EmptyMsg, called |-> <<>>]

\* A loop without the break: the last failing rule's message is kept.
AfterRuleNoBreak(d, field, rules, i, value, result) ==
  IF result.threw
  THEN [threw |-> TRUE, isValid |-> TRUE, errorMessage |-> EmptyMsg,
        called |-> <<i>>]
  ELSE IF ~result.valid /\ RunChain(d, field, rules, i + 1, value).isValid
  THEN [RunChain(d, field, rules, i + 1, value) EXCEPT
          !.isValid = FALSE, !.errorMessage = result.message,
          !.called = <<i>> \o @]
  ELSE [RunChain(d, field, rules, i + 1, value) EXCEPT !.called = <<i>> \o @]

\* if (!result.valid) { isValid = false; errorMessage = ...; break; }
AfterRule(d, field, rules, i, value, result) ==
  IF result.threw
  THEN [threw |-> TRUE, isValid |-> TRUE, errorMessage |-> EmptyMsg,
        called |-> <<i>>]
  ELSE IF ~result.valid
  THEN [threw |-> FALSE, isValid |-> FALSE, errorMessage |-> result.message,
        called |-> <<i>>]
  ELSE [RunChain(d, field, rules, i + 1, value) EXCEPT !.called = <<i>> \o @]

\* if (!validator) { console.warn(...); continue; }
RunRule(d, field, rules, i, value, parts) ==
  IF ~IsRegistered(RuleName(parts))
  THEN RunChain(d, field, rules, i + 1, value)
  ELSE AfterRule(d, field, rules, i, value, CallRule(d, field, parts, value))

RunChain(d, field, rules, i, value) ==
  IF i > Len(rules) THEN ChainEnd
  ELSE RunRule(d, field, rules, i, value, Split(rules[i], ":"))

\* validateField(field, config): the document after the call and what the
\* call came to: "true", "false", or "threw" when an exception left it (the
\* renderer is then not reached). d.evals and d.lastEval record the call.
ReturnOf(run) ==
  IF run.threw THEN "threw" ELSE IF run.isValid THEN "true" ELSE "false"

\* this.updateFieldUI(field, isValid, errorMessage, config); return isValid
RenderRun(d, field, config, run) ==
  [(IF run.threw THEN d
    ELSE updateFieldUI(d, field, run.isValid, run.errorMessage, config))
   EXCEPT
     !.evals = Append(@, [field |-> field, ret |-> ReturnOf(run),
                          called |-> run.called, message |-> run.errorMessage]),
     !.lastEval[field] =
        IF run.threw THEN @
        ELSE [ret |-> ReturnOf(run), message |-> run.errorMessage]]

\* validateField writing the trimmed copy back to the field.
validateFieldWriteBack(d, field, config) ==
  RenderRun([d EXCEPT !.value[field] = Trim(@)], field, config,
            RunChain(d, field, Split(d.validate[field].s, "|"), 1,
                     Trim(d.value[field])))

validateField(d, field, config) ==
  RenderRun(d, field, config,
            RunChain(d, field, Split(d.validate[field].s, "|"), 1,
                     Trim(d.value[field])))

\* -------------------------------------------------------- file validation

\* const defaults = { maxSize, allowedTypes, allowedExtensions }
FileDefaults ==
  [maxSize |-> 10 * 1024 * 1024,
   allowedTypes |->
     << <<"i", "m", "a", "g", "e", "/", "j", "p", "e", "g">>,
        Lit.imagePng,
        <<"i", "m", "a", "g", "e", "/", "g", "i", "f">>,
        <<"a", "u", "d", "i", "o", "/", "m", "p", "e", "g">>,
        <<"a", "u", "d", "i", "o", "/", "w", "a", "v">>,
        <<"v", "i", "d", "e", "o", "/", "m", "p", "4">> >>,
   allowedExtensions |->
     << <<".", "j", "p", "g">>,
        <<".", "j", "p", "e", "g">>,
        Lit.png,
        <<".", "g", "i", "f">>,
        <<".", "m", "p", "3">>,
        <<".", "w", "a", "v">>,
        <<".", "m", "p", "4">> >>]

\* { ...defaults, ...options }: options is a function on the keys it sets.
MergeOptions(defaults, options) ==
  [k \in DOMAIN defaults |->
     IF k \in DOMAIN options THEN options[k] ELSE defaults[k]]

\* Array.prototype.includes
Includes(arr, x) == \E i \in 1..Len(arr) : arr[i] = x

\* Array.prototype.join(', ')
RECURSIVE JoinComma(_)
JoinComma(arr) ==
  IF arr = <<>> THEN <<>>
  ELSE IF Len(arr) = 1 THEN arr[1]
  ELSE arr[1] \o <<",", " ">> \o JoinComma(Tail(arr))

\* (config.maxSize / 1024 / 1024).toFixed(0): rounded to the nearest integer
ToFixed0MiB(bytes) == (2 * bytes + 1024 * 1024) \div (2 * 1024 * 1024)

\* '.' + file.name.split('.').pop().toLowerCase()
ExtensionOf(name) ==
  LET parts == Split(name, ".")
  IN <<".">> \o ToLowerCase(parts[Len(parts)])

\* validateFile with the type checked before the size, and the size limit
\* exclusive.
validateFileTypeFirst(file, options) ==
  LET config == MergeOptions(FileDefaults, options)
  IN IF ~Includes(config.allowedTypes, file.type)
     THEN Result(FALSE, Msg("File type not allowed", <<>>))
     ELSE IF file.size >= config.maxSize
     THEN Result(FALSE, Msg("File size must not exceed {}MB",
                            NatToStr(ToFixed0MiB(config.maxSize))))
     ELSE ResultValid

\* validateFile without the check of the extension.
validateFileNoExtension(file, options) ==
  LET config == MergeOptions(FileDefaults, options)
  IN IF file.size > config.maxSize
     THEN Result(FALSE, Msg("File size must not exceed {}MB",
                            NatToStr(ToFixed0MiB(config.maxSize))))
     ELSE IF ~Includes(config.allowedTypes, file.type)
     THEN Result(FALSE, Msg("File type not allowed", <<>>))
     ELSE ResultValid

\* A file is [size, type, name].
validateFile(file, options) ==
  LET config == MergeOptions(FileDefaults, options)
  IN IF file.size > config.maxSize
     THEN Result(FALSE, Msg("File size must not exceed {}MB",
                            NatToStr(ToFixed0MiB(config.maxSize))))
     ELSE IF ~Includes(config.allowedTypes, file.type)
     THEN Result(FALSE, Msg("File type not allowed", <<>>))
     ELSE IF ~Includes(config.allowedExtensions, ExtensionOf(file.name))
     THEN Result(FALSE, Msg("Only {} files are allowed",
                            JoinComma(config.allowedExtensions)))
     ELSE ResultValid


\* -------------------------------------------------------------- form data

\* A function object found on Object.prototype.
Fn(name) == [t |-> "fn", s |-> name, el |-> 0]

\* The File object a file input contributes to the form's entries.
FileOf(d, e) == [t |-> "file", s |-> d.value[e], el |-> e]

\* new FormData(form).entries(): a [key, value] pair for every control of
\* the form that has a non-empty name, in document order; a text control
\* gives its value, a file input a File object.
RECURSIVE FormDataEntries(_, _)
FormDataEntries(d, e) ==
  IF e > Len(d.id) THEN <<>>
  ELSE IF d.name[e].has /\ d.name[e].s # <<>>
    THEN << [key |-> d.name[e].s,
             value |-> IF d.kind[e] = "file" THEN FileOf(d, e)
                       ELSE Str(d.value[e])] >>
         \o FormDataEntries(d, e + 1)
  ELSE FormDataEntries(d, e + 1)

\* const data = {}: its own properties in insertion order, each a key with
\* one value (list = FALSE) or an array of values (list = TRUE).
NoData == <<>>

Single(key, value) == [key |-> key, list |-> FALSE, vals |-> <<value>>]

Array(key, values) == [key |-> key, list |-> TRUE, vals |-> values]

\* The index of the own property `key` of data, 0 when it has none.
OwnIndex(data, key) ==
  IF \E i \in 1..Len(data) : data[i].key = key
  THEN CHOOSE i \in 1..Len(data) : data[i].key = key
  ELSE 0

\* if (data[key]) for an own property holding one value: strings are truthy
\* when non-empty, objects always.
TruthyValue(v) == v.t # "str" \/ v.s # <<>>

\* One turn of the for loop on an own property at index i.
SetOwn(data, i, key, value) ==
  IF data[i].list THEN [data EXCEPT ![i].vals = Append(@, value)]
  ELSE IF TruthyValue(data[i].vals[1])
    THEN [data EXCEPT ![i] = Array(key, <<data[i].vals[1], value>>)]
  ELSE [data EXCEPT ![i] = Single(key, value)]

\* One turn of the for loop. A key data does not own is looked up on
\* Object.prototype: a name found there is a function, truthy and no
\* array, and the entry becomes [function, value]; assigning to __proto__
\* replaces the prototype and gives data no own property.
SetEntry(data, key, value) ==
  IF OwnIndex(data, key) # 0 THEN SetOwn(data, OwnIndex(data, key), key, value)
  ELSE IF key = Lit.proto THEN data
  ELSE IF key \in ObjectPrototypeNames
    THEN Append(data, Array(key, <<Fn(key), value>>))
  ELSE Append(data, Single(key, value))

RECURSIVE CollectEntries(_, _, _)
CollectEntries(entries, i, data) ==
  IF i > Len(entries) THEN data
  ELSE CollectEntries(entries, i + 1,
                      SetEntry(data, entries[i].key, entries[i].value))

getFormData(d) == CollectEntries(FormDataEntries(d, 1), 1, NoData)

\* What fileCall holds when validateFile was not called by the page.
NoFileCall ==
  [file |-> [size |-> 0, type |-> <<>>, name |-> <<>>], oi |-> 1, done |-> FALSE,
   result |-> ResultValid]

\* ------------------------------------------------------------------- state

VARIABLES
  markup,      \* the form's controls in document order: id, data-validate
               \* ([has, s]), parent element and kind of each; never changes
  legacyDate,  \* what the engine's Date makes of a non-ISO string with digits
  value,       \* value[e]: the current value of control e
  cls,         \* cls[e]: the classes of control e
  aria,        \* aria[e]: its aria-invalid attribute, "none" when absent
  errs,        \* errs[p]: the error-message elements of parent element p
  focused,     \* the focused control, 0 when the focus is elsewhere
  inits,       \* the config of each initForm call that registered listeners
  armed,       \* armed[e]: the initForm calls whose { once: true } blur
               \* listener on e has not run yet
  fileSetup,   \* fileSetup[e]: the options of each change listener on e
  evals,       \* history: the validateField calls of the last event
  emitted,     \* history: the formValid events the last event dispatched
  focusCalls,  \* history: the elements the last event called focus() on
  prevented,   \* history: the last event had preventDefault() called on it
  lastEval,    \* history: lastEval[e], the last validateField call on e
               \* that returned, since the last resetForm
  blurred,     \* history: blurred[e], e lost focus since the form was
               \* initialized or last reset
  data,        \* history: what getFormData returned to the last event
  fileCall,    \* the file and options of a direct validateFile call, and
               \* what the call returned
  event,       \* history: the last event, [kind, el], and for an input
               \* event the value v the user typed
  http,        \* server.js: the request the server is handling, how far it
               \* got, and the response; <<>> when the server is not modelled
  panel        \* payments.js: a displayTransactionHistory run and the
               \* payment loader; <<>> when the page is not modelled

vars ==
  <<markup, legacyDate, value, cls, aria, errs, focused, inits, armed,
    fileSetup, evals, emitted, focusCalls, prevented, lastEval, blurred,
    data, fileCall, event, http, panel>>

\* The document as the handlers of one event see it when the event starts.
Doc ==
  [id |-> markup.id, validate |-> markup.validate, parent |-> markup.parent,
   kind |-> markup.kind, name |-> markup.name, data |-> NoData, legacyDate |-> legacyDate, value |-> value,
   cls |-> cls, aria |-> aria, errs |-> errs, focused |-> focused,
   inits |-> inits, armed |-> armed, fileSetup |-> fileSetup,
   evals |-> <<>>, emitted |-> 0, focusCalls |-> <<>>, prevented |-> FALSE,
   lastEval |-> lastEval, blurred |-> blurred]

\* The state once the handlers of event ev have run and left document d.
Commit(d, ev) ==
  /\ value' = d.value
  /\ cls' = d.cls
  /\ aria' = d.aria
  /\ errs' = d.errs
  /\ focused' = d.focused
  /\ inits' = d.inits
  /\ armed' = d.armed
  /\ fileSetup' = d.fileSetup
  /\ evals' = d.evals
  /\ emitted' = d.emitted
  /\ focusCalls' = d.focusCalls
  /\ prevented' = d.prevented
  /\ lastEval' = d.lastEval
  /\ blurred' = d.blurred
  /\ data' = d.data
  /\ event' = ev
  /\ UNCHANGED <<markup, legacyDate, fileCall, http, panel>>

Elements(d) == 1..Len(d.id)

\* form.querySelectorAll('[data-validate]')
IsBound(d, e) == d.validate[e].has

Ev(kind, el) == [kind |-> kind, el |-> el]

NoEval == [ret |-> "none", message |-> NoMsg]


\* The value validateField returned to its caller: that of the call recorded
\* last.
Returned(d) == d.evals[Len(d.evals)].ret

\* ------------------------------------------------------------------ events

\* const defaultOptions = { ... }
DefaultOptions ==
  [validateOnBlur |-> TRUE, validateOnInput |-> FALSE,
   showSuccessIndicator |-> TRUE, preserveDataOnError |-> TRUE]

\* The options objects the page passes to initForm.
InitOptions ==
  <<[k \in {} |-> TRUE],
    [validateOnInput |-> TRUE, preserveDataOnError |-> FALSE],
    [validateOnBlur |-> FALSE, showSuccessIndicator |-> FALSE]>>

\* The config updateFieldUI gets from the file listener: {}.
EmptyConfig ==
  [validateOnBlur |-> FALSE, validateOnInput |-> FALSE,
   showSuccessIndicator |-> FALSE, preserveDataOnError |-> FALSE]

\* A blur event on e: the listeners run in the order they were added, per
\* initForm call the validating listener (with validateOnBlur) and then the
\* { once: true } listener that marks the field touched. An exception in
\* one listener is reported and does not stop the next.
\* input.classList.add('touched'), once per initForm call
MarkTouched(d, e, i) ==
  IF i \in d.armed[e]
  THEN [d EXCEPT !.cls[e] = @ \cup {"touched"}, !.armed[e] = @ \ {i}]
  ELSE d

RECURSIVE BlurListeners(_, _, _)
BlurListeners(d, e, i) ==
  IF i > Len(d.inits) THEN d
  ELSE BlurListeners(
         MarkTouched(IF d.inits[i].validateOnBlur
                     THEN validateField(d, e, d.inits[i]) ELSE d,
                     e, i),
         e, i + 1)

DispatchBlur(d, e) ==
  IF IsBound(d, e)
  THEN BlurListeners([d EXCEPT !.blurred[e] = @ \/ d.inits # <<>>], e, 1)
  ELSE d

\* The focus moves to e (0: out of the form): the control that had it gets
\* a blur event.
MoveFocus(d, e) ==
  IF d.focused = e THEN d
  ELSE [(IF d.focused # 0 THEN DispatchBlur(d, d.focused) ELSE d)
          EXCEPT !.focused = e]

\* The input listeners without the test of the touched class.
RECURSIVE InputListenersUntouched(_, _, _)
InputListenersUntouched(d, e, i) ==
  IF i > Len(d.inits) THEN d
  ELSE InputListenersUntouched(IF d.inits[i].validateOnInput
                               THEN validateField(d, e, d.inits[i]) ELSE d,
                               e, i + 1)

\* An input event on e: per initForm call with validateOnInput, the field
\* is validated if it is touched.
RECURSIVE InputListeners(_, _, _)
InputListeners(d, e, i) ==
  IF i > Len(d.inits) THEN d
  ELSE InputListeners(IF d.inits[i].validateOnInput /\ "touched" \in d.cls[e]
                      THEN validateField(d, e, d.inits[i]) ELSE d,
                      e, i + 1)

\* inputs.forEach(input => { if (!this.validateField(...)) isValid = false })
\* from element e on: the document, isValid, and whether an exception ended
\* the loop.
RECURSIVE ValidateInputs(_, _, _, _)

\* isValid = this.validateField(input, config): the last field decides.
AfterInputLast(d1, config, e, isValid) ==
  IF Returned(d1) = "threw"
  THEN [d |-> d1, isValid |-> isValid, threw |-> TRUE]
  ELSE ValidateInputs(d1, config, e + 1, Returned(d1) = "true")

\* After validateField on input e left document d1.
AfterInput(d1, config, e, isValid) ==
  IF Returned(d1) = "threw"
  THEN [d |-> d1, isValid |-> isValid, threw |-> TRUE]
  ELSE ValidateInputs(d1, config, e + 1, isValid /\ Returned(d1) = "true")

ValidateInputs(d, config, e, isValid) ==
  IF e > Len(d.id) THEN [d |-> d, isValid |-> isValid, threw |-> FALSE]
  ELSE IF ~IsBound(d, e) THEN ValidateInputs(d, config, e + 1, isValid)
  ELSE AfterInput(validateField(d, e, config), config, e, isValid)

\* form.querySelector('.invalid'): the first control of the form, in
\* document order, with the class; 0 for null.
FirstInvalid(d) ==
  IF \E e \in Elements(d) : "invalid" \in d.cls[e]
  THEN CHOOSE e \in Elements(d) :
         "invalid" \in d.cls[e] /\ \A j \in 1..(e - 1) : "invalid" \notin d.cls[j]
  ELSE 0

\* if (firstInvalid) { firstInvalid.focus(); }
FocusFirstInvalid(d, firstInvalid) ==
  IF firstInvalid # 0
  THEN MoveFocus([d EXCEPT !.focusCalls = Append(@, firstInvalid)], firstInvalid)
  ELSE d

\* if (isValid) { form.dispatchEvent(formValid) } else { focus first invalid }
\* once the forEach came to r; nothing when an exception ended the listener.
SubmitDecision(r) ==
  IF r.threw THEN r.d
  ELSE IF r.isValid
    THEN [r.d EXCEPT !.emitted = @ + 1, !.data = getFormData(r.d)]
  ELSE FocusFirstInvalid(r.d, FirstInvalid(r.d))

\* The submit listener of the i-th initForm call: e.preventDefault(), then
\* the fields, then the decision.
SubmitListener(d, i) ==
  SubmitDecision(ValidateInputs([d EXCEPT !.prevented = TRUE], d.inits[i], 1, TRUE))

RECURSIVE SubmitListeners(_, _)
SubmitListeners(d, i) ==
  IF i > Len(d.inits) THEN d
  ELSE SubmitListeners(SubmitListener(d, i), i + 1)


\* The change listener setupFileValidation adds, run for each registration
\* in turn; `present` is whether e.target.files[0] is still there (clearing
\* input.value empties the file list).
RECURSIVE ChangeListeners(_, _, _, _, _)

\* if (!result.valid) { updateFieldUI(..., false, ...); input.value = '' }
\* else { updateFieldUI(..., true, '', {}) }
AfterFile(d, e, file, i, result) ==
  IF ~result.valid
  THEN ChangeListeners([updateFieldUI(d, e, FALSE, result.message, EmptyConfig)
                          EXCEPT !.value[e] = <<>>],
                       e, file, FALSE, i + 1)
  ELSE ChangeListeners(updateFieldUI(d, e, TRUE, EmptyMsg, EmptyConfig),
                       e, file, TRUE, i + 1)

ChangeListeners(d, e, file, present, i) ==
  IF i > Len(d.fileSetup[e]) THEN d
  ELSE IF ~present THEN ChangeListeners(d, e, file, present, i + 1)
  ELSE AfterFile(d, e, file, i, validateFile(file, d.fileSetup[e][i]))

\* resetForm leaving the touched class on the fields.
ResetDocumentKeepTouched(d) ==
  [d EXCEPT
     !.value = [e \in Elements(d) |-> <<>>],
     !.cls = [e \in Elements(d) |->
                IF IsBound(d, e)
                THEN d.cls[e] \ {"valid", "invalid", "has-success-icon"}
                ELSE d.cls[e]],
     !.aria = [e \in Elements(d) |-> IF IsBound(d, e) THEN "none" ELSE d.aria[e]],
     !.errs = [p \in DOMAIN d.errs |-> <<>>],
     !.lastEval = [e \in Elements(d) |-> NoEval],
     !.blurred = [e \in Elements(d) |-> FALSE]]

\* resetForm(formId) on the form: form.reset() restores the default (empty)
\* values; the bound fields lose their validation classes and aria-invalid;
\* every error-message element of the form is removed.
ResetDocument(d) ==
  [d EXCEPT
     !.value = [e \in Elements(d) |-> <<>>],
     !.cls = [e \in Elements(d) |->
                IF IsBound(d, e)
                THEN d.cls[e] \ {"valid", "invalid", "touched", "has-success-icon"}
                ELSE d.cls[e]],
     !.aria = [e \in Elements(d) |-> IF IsBound(d, e) THEN "none" ELSE d.aria[e]],
     !.errs = [p \in DOMAIN d.errs |-> <<>>],
     !.lastEval = [e \in Elements(d) |-> NoEval],
     !.blurred = [e \in Elements(d) |-> FALSE]]

\* ------------------------------------------------------------------ inputs

\* The values a user types: all strings of a letter and the space.
FormValues == Strings({"a", " "}, MaxLen)

Attr(s) == [has |-> TRUE, s |-> s]

NoAttr == [has |-> FALSE, s |-> <<>>]

\* The ids of the controls, "f1", "f2", ...
IdOf(e) == <<"f", DigitChar(e)>>

\* A form of controls given by their data-validate attributes, parents,
\* kinds and name attributes.
Form(attrs, parents, kinds, names) ==
  [id |-> [e \in 1..Len(attrs) |-> IdOf(e)], validate |-> attrs,
   parent |-> parents, kind |-> kinds, name |-> names]

Rule1(name, param) == name \o <<":">> \o param

\* The forms of specification Spec.
Markups ==
  { \* required | match:f1, each field in a wrapper of its own
    Form(<<Attr(Lit.required), Attr(Rule1(Lit.match, IdOf(1)))>>,
         <<1, 2>>, <<"text", "text">>, <<Attr(<<"a">>), Attr(<<"b">>)>>),
    \* a rule name found on Object.prototype, then required:N
    Form(<<Attr(Lit.proto), Attr(Rule1(Lit.required, <<"N">>))>>,
         <<1, 2>>, <<"text", "text">>, <<Attr(<<"a">>), Attr(<<"b">>)>>),
    \* a named file input before a required field that has an id and no
    \* name
    Form(<<NoAttr, Attr(Lit.required)>>, <<1, 2>>, <<"file", "text">>,
         <<Attr(<<"a">>), NoAttr>>),
    \* two fields of one name in one parent element
    Form(<<Attr(Lit.required), Attr(Lit.email)>>, <<1, 1>>, <<"text", "text">>,
         <<Attr(<<"a">>), Attr(<<"a">>)>>) }

\* The files a user chooses.
Files ==
  { [size |-> 2 * 1024 * 1024, type |-> Lit.imagePng, name |-> <<"a">> \o Lit.png],
    [size |-> 12 * 1024 * 1024, type |-> Lit.imagePng, name |-> <<"a">> \o Lit.png],
    [size |-> 2 * 1024 * 1024, type |-> Lit.applicationZip,
     name |-> <<"a", ".", "z", "i", "p">>] }

\* The options objects the page passes to setupFileValidation.
FileOptions == <<[k \in {} |-> 0], [maxSize |-> 1024 * 1024]>>

\* ------------------------------------------------------------- operations

\* The page as loaded with form m and the values vals in its controls,
\* before any call: nothing validated, nothing focused.
Loaded(m, vals) ==
  /\ markup = m
  /\ value = vals
  /\ cls = [e \in 1..Len(m.id) |-> {}]
  /\ aria = [e \in 1..Len(m.id) |-> "none"]
  /\ errs = [p \in {m.parent[e] : e \in 1..Len(m.id)} |-> <<>>]
  /\ focused = 0
  /\ inits = <<>>
  /\ armed = [e \in 1..Len(m.id) |-> {}]
  /\ fileSetup = [e \in 1..Len(m.id) |-> <<>>]
  /\ evals = <<>>
  /\ emitted = 0
  /\ focusCalls = <<>>
  /\ prevented = FALSE
  /\ lastEval = [e \in 1..Len(m.id) |-> NoEval]
  /\ blurred = [e \in 1..Len(m.id) |-> FALSE]
  /\ data = NoData
  /\ event = Ev("load", 0)

\* The values of Spec hold no digit, so the engine's choice is never read
\* in it.
Init ==
  /\ \E m \in Markups : Loaded(m, [e \in 1..Len(m.id) |-> <<>>])
  /\ legacyDate = NaN
  /\ fileCall = NoFileCall
  /\ http = <<>>
  /\ panel = <<>>

\* initForm(formId, options)
InitForm(formFound, oi) ==
  LET d == Doc
      config == MergeOptions(DefaultOptions, InitOptions[oi])
      n == Len(inits) + 1
  IN Commit(IF ~formFound THEN d
            ELSE [d EXCEPT
                    !.inits = Append(@, config),
                    !.armed = [e \in Elements(d) |->
                                 IF IsBound(d, e) THEN @[e] \cup {n} ELSE @[e]]],
            Ev("initForm", 0))

\* The user moves the focus to control e, or (e = 0) out of the form.
UserFocus(e) ==
  /\ e # focused
  /\ Commit(MoveFocus(Doc, e), Ev("focus", e))

\* The user types into the focused text field: its value becomes v and an
\* input event is dispatched.
UserType(e, v) ==
  /\ focused = e
  /\ markup.kind[e] = "text"
  /\ v # value[e]
  /\ Commit(InputListeners([Doc EXCEPT !.value[e] = v], e, 1),
            [kind |-> "input", el |-> e, v |-> v])

\* A submit event on the initialized form.
UserSubmit ==
  /\ inits # <<>>
  /\ Commit(SubmitListeners(Doc, 1), Ev("submit", 0))

\* resetForm(formId)
ResetForm(formFound) ==
  Commit(IF formFound THEN ResetDocument(Doc) ELSE Doc,
         [kind |-> "resetForm", el |-> 0, found |-> formFound])

\* setupFileValidation(inputId, options): a change listener on a file input,
\* nothing for another element.
SetupFileValidation(e, oi) ==
  /\ Len(fileSetup[e]) < MaxSetup
  /\ Commit(IF markup.kind[e] # "file" THEN Doc
            ELSE [Doc EXCEPT !.fileSetup[e] = Append(@, FileOptions[oi])],
            Ev("setupFileValidation", e))

\* The user chooses a file: the input's value names it and a change event
\* is dispatched.
ChooseFile(e, file) ==
  /\ markup.kind[e] = "file"
  /\ Commit(ChangeListeners([Doc EXCEPT !.value[e] = Lit.fakepath \o file.name],
                            e, file, TRUE, 1),
            Ev("change", e))

Next ==
  \/ \E formFound \in BOOLEAN, oi \in 1..Len(InitOptions) :
       Len(inits) < MaxInit /\ InitForm(formFound, oi)
  \/ \E e \in 0..Len(markup.id) : UserFocus(e)
  \/ \E e \in 1..Len(markup.id), v \in FormValues : UserType(e, v)
  \/ UserSubmit
  \/ \E formFound \in BOOLEAN : ResetForm(formFound)
  \/ \E e \in 1..Len(markup.id), oi \in 1..Len(FileOptions) : SetupFileValidation(e, oi)
  \/ \E e \in 1..Len(markup.id), file \in Files : ChooseFile(e, file)

Spec == Init /\ [][Next]_vars


\* ------------------------------------------- the chain evaluator on its own
\* Specification ChainSpec: a form whose first field carries a generated rule
\* chain and whose second control is the field "f2" a match rule can name;
\* the page calls validateField on the first field, once.

RuleN(name, params) == Join(<<name>> \o params, ":")

\* The rule tokens the chains are made of: every builtin validator with the
\* parameter lists that make it pass and fail, two names Object.prototype
\* holds, and two names nothing holds.
RuleTokens ==
  { Lit.required, RuleN(Lit.required, << <<"N">> >>), RuleN(Lit.required, << <<>> >>),
    Lit.email, Lit.phone, Lit.url,
    Lit.minLength, RuleN(Lit.minLength, << <<"2">> >>),
    RuleN(Lit.maxLength, << <<"1">> >>),
    Lit.number, RuleN(Lit.number, << <<"0">>, <<"4">> >>),
    Lit.date,
    Lit.password, RuleN(Lit.password, <<Lit.weak>>), RuleN(Lit.password, <<Lit.toString>>),
    Lit.match, RuleN(Lit.match, <<IdOf(2)>>), RuleN(Lit.match, <<IdOf(9)>>),
    Lit.toString, Lit.proto, <<"x">>, <<>> }

\* The data-validate attribute of the first field: up to MaxChain tokens
\* joined by "|".
ChainMarkups ==
  {Form(<<Attr(Join(c, "|")), NoAttr>>, <<1, 2>>, <<"text", "text">>,
        <<Attr(<<"a">>), Attr(<<"b">>)>>) :
     c \in UNION {[1..k -> RuleTokens] : k \in 0..MaxChain}}

\* The values of the first field: those a user types in Spec, and one that
\* passes or fails each validator that reads more than the length.
ChainValues ==
  FormValues \cup
  { <<"a", "a">>, <<"a", " ">>, <<"5">>, <<"a", "@", "a", ".", "a">>, <<"a", ":">> }

\* legacyDate is what an engine makes of a non-ISO string with a digit: no
\* date, or a date.
InitChain ==
  /\ \E m \in ChainMarkups, v1 \in ChainValues, v2 \in FormValues :
       Loaded(m, <<v1, v2>>)
  /\ legacyDate \in {NaN, DayKey(2001, 1, 1)}
  /\ fileCall = NoFileCall
  /\ http = <<>>
  /\ panel = <<>>

\* The page calls validateField(field, config) itself.
CallValidateField(e, config) ==
  /\ event.kind = "load"
  /\ IsBound(Doc, e)
  /\ Commit(validateField(Doc, e, config), Ev("validateField", e))

NextChain ==
  \E e \in 1..Len(markup.id), config \in {DefaultOptions, EmptyConfig} :
    CallValidateField(e, config)

ChainSpec == InitChain /\ [][NextChain]_vars


\* ------------------------------------------------------------- properties
\* What the properties say of one validateField call, whose record is r: the
\* rules of the field as the attribute spells them, the value the call read,
\* and what each rule's validator comes to on that value. A call leaves
\* values, ids and the engine alone, so these are the same before and after.

RulesOf(e) == Split(markup.validate[e].s, "|")

NameOfRule(e, k) == RuleName(Split(RulesOf(e)[k], ":"))

Known(e, k) == IsRegistered(NameOfRule(e, k))

Outcome(e, k) == CallRule(Doc, e, Split(RulesOf(e)[k], ":"), Trim(value[e]))

Fails(e, k) == Known(e, k) /\ ~Outcome(e, k).threw /\ ~Outcome(e, k).valid

Passes(e, k) == Known(e, k) /\ ~Outcome(e, k).threw /\ Outcome(e, k).valid

\* The indices up to k of the rules whose name the registry holds.
KnownUpTo(e, k) == SelectSeq([j \in 1..k |-> j], LAMBDA j : Known(e, j))

\* Rule k is the first failing rule of e: every rule before it that the
\* registry holds passes.
FirstFailing(e, k) ==
  /\ k \in 1..Len(RulesOf(e))
  /\ Fails(e, k)
  /\ \A j \in 1..(k - 1) : Known(e, j) => Passes(e, j)

\* The state is that after one direct validateField call on field 1.
Called == event.kind = "validateField" /\ Len(evals) = 1

\* C1: validateField evaluates the rules left to right and stops at the
\* first rule whose result is invalid: the call returns false, the field is
\* rendered invalid with exactly that rule's message, and no later rule is
\* evaluated.
C1_ShortCircuit ==
  Called =>
    \A k \in 1..Len(RulesOf(1)) :
      FirstFailing(1, k) =>
        /\ evals[1].ret = "false"
        /\ evals[1].message = Outcome(1, k).message
        /\ evals[1].called = KnownUpTo(1, k)
        /\ "invalid" \in cls[1] /\ "valid" \notin cls[1]
        /\ aria[1] = "true"
        /\ errs[markup.parent[1]] = <<ErrorElement(1, Outcome(1, k).message)>>

\* A call on a chain whose first rule fails and whose second rule would fail
\* with another message.
C1_Witness ==
  /\ Called
  /\ Len(RulesOf(1)) = 2
  /\ FirstFailing(1, 1)
  /\ Fails(1, 2)
  /\ Outcome(1, 1).message # Outcome(1, 2).message
  /\ evals[1].ret = "false"


\* The validators the source guards with `if (!value) return { valid: true }`.
EmptyPassNames ==
  {Lit.email, Lit.phone, Lit.url, Lit.minLength, Lit.maxLength, Lit.number, Lit.date,
   Lit.password}

\* Every rule of field e names a validator of the set names.
AllRulesIn(e, names) ==
  \A k \in 1..Len(RulesOf(e)) : NameOfRule(e, k) \in names

\* The element a match rule of field e (rule k) names: its first parameter,
\* or the field itself when it has none; 0 when no element has that id.
MatchTarget(e, k) ==
  GetElementById(Doc,
    ToStr(Arg(RuleParams(Split(RulesOf(e)[k], ":")) \o <<Obj(e)>>, 1)))

\* C2 (as amended): every builtin validator other than required and match
\* yields valid on the empty string, whatever its parameters and the other
\* fields; match on the empty string yields valid exactly when its target
\* exists and holds the empty string.
C2_EmptyPasses ==
  (Called /\ Trim(value[1]) = <<>>) =>
    /\ AllRulesIn(1, EmptyPassNames) =>
         /\ evals[1].ret = "true"
         /\ evals[1].called = KnownUpTo(1, Len(RulesOf(1)))
         /\ "valid" \in cls[1] /\ errs[markup.parent[1]] = <<>>
    /\ (Len(RulesOf(1)) = 1 /\ NameOfRule(1, 1) = Lit.match) =>
         (evals[1].ret = "true" <=>
            (MatchTarget(1, 1) # 0 /\ value[MatchTarget(1, 1)] = <<>>))

\* minLength:2 then password:toString evaluated on a value of one space.
C2_Witness ==
  /\ Called
  /\ value[1] = <<" ">>
  /\ RulesOf(1) = <<RuleN(Lit.minLength, << <<"2">> >>),
                    RuleN(Lit.password, <<Lit.toString>>)>>
  /\ evals[1].ret = "true"

\* C2 (as claimed): every builtin validator other than required, match
\* included, yields valid on the empty string.
C2_Original ==
  (Called /\ Trim(value[1]) = <<>>) =>
    (AllRulesIn(1, EmptyPassNames \cup {Lit.match}) => evals[1].ret = "true")

\* C3 (as claimed): a rule whose name is none of the ten builtin names is
\* skipped: the call comes to what it comes to on the chain without it.
BuiltinRulesOf(e) ==
  SelectSeq(RulesOf(e), LAMBDA r : RuleName(Split(r, ":")) \in BuiltinNames)

C3_UnknownSkipped ==
  Called =>
    /\ evals[1].ret =
         ReturnOf(RunChain(Doc, 1, BuiltinRulesOf(1), 1, Trim(value[1])))
    /\ evals[1].message =
         RunChain(Doc, 1, BuiltinRulesOf(1), 1, Trim(value[1])).errorMessage

\* C7 (as claimed): when required is the rule that fails on an empty value,
\* the message is "<label> is required" with a label parameter and "This
\* field is required" without a parameter.
C7_RequiredMessage ==
  (Called /\ Trim(value[1]) = <<>>) =>
    \A k \in 1..Len(RulesOf(1)) :
      (FirstFailing(1, k) /\ NameOfRule(1, k) = Lit.required) =>
        LET parts == Split(RulesOf(1)[k], ":")
        IN /\ Len(parts) = 1 =>
                evals[1].message = Msg("{} is required", Lit.ThisField)
           /\ (Len(parts) > 1 /\ parts[2] # <<>>) =>
                evals[1].message = Msg("{} is required", parts[2])

\* C8 (as claimed): a field bound with match:<id>, the target existing, is
\* valid exactly when the value evaluated equals the target's current value,
\* and otherwise invalid with "Fields do not match"; two fields holding the
\* identical string always match.
C8_MatchEquality ==
  (Called /\ Len(RulesOf(1)) = 1 /\ NameOfRule(1, 1) = Lit.match
          /\ MatchTarget(1, 1) # 0) =>
    /\ evals[1].ret = "true" <=> Trim(value[1]) = value[MatchTarget(1, 1)]
    /\ evals[1].ret = "false" =>
         evals[1].message = Msg("Fields do not match", <<>>)
    /\ value[1] = value[MatchTarget(1, 1)] => evals[1].ret = "true"


\* ------------------------------------------------- properties of the form

BoundFields == {e \in 1..Len(markup.id) : markup.validate[e].has}

\* Field e passes its rule chain: every rule the registry holds passes.
FieldPasses(e) ==
  \A k \in 1..Len(RulesOf(e)) : Known(e, k) => Passes(e, k)

\* The fields the last event called validateField on, and those among them
\* for which a call returned false.
Evaluated == {evals[i].field : i \in 1..Len(evals)}

Failed == {evals[i].field : i \in {j \in 1..Len(evals) : evals[j].ret = "false"}}

Submitted == event.kind = "submit"

\* C4 (as claimed): on a submit event every bound field is evaluated; a
\* field never prevents a later field from being evaluated.
C4_AllEvaluated == Submitted => BoundFields \subseteq Evaluated

\* C5: on a submit event the formValid signal is emitted if and only if
\* every bound field passes its rule chain; with a field that does not, none
\* is emitted; the submission is blocked either way.
C5_FormValidIff ==
  Submitted =>
    /\ emitted >= 1 <=> \A e \in BoundFields : FieldPasses(e)
    /\ emitted \in {0, Len(inits)}
    /\ prevented

\* A submit that emitted formValid with a value typed in every field.
C5_Witness ==
  /\ Submitted
  /\ emitted >= 1
  /\ Cardinality(BoundFields) = 2
  /\ \A e \in BoundFields : value[e] # <<>>

\* C6 (as claimed): when a submit finds a bound field failing, the focus is
\* moved to the first bound field that failed in this submission, and to no
\* other element.
C6_FocusFirstFailed ==
  (Submitted /\ Failed # {}) =>
    /\ focused = CHOOSE e \in Failed : \A x \in Failed : e <= x
    /\ \A i \in 1..Len(focusCalls) :
         focusCalls[i] = CHOOSE e \in Failed : \A x \in Failed : e <= x

\* The error annotations a call on field e created that are in the document.
AnnotationsOf(e) ==
  SelectSeq(errs[markup.parent[e]], LAMBDA a : a.owner = e)

\* C9 (as claimed): every field whose last evaluation failed has exactly one
\* error annotation, carrying that evaluation's message, and every field
\* whose last evaluation passed (or that was not evaluated since the last
\* reset) has none.
C9_OneAnnotation ==
  \A e \in BoundFields :
    IF lastEval[e].ret = "false"
    THEN AnnotationsOf(e) = <<ErrorElement(e, lastEval[e].message)>>
    ELSE AnnotationsOf(e) = <<>>

\* C10 (as claimed): a field is touched in every state after it lost focus
\* since the form was initialized or last reset.
C10_TouchedAfterBlur ==
  \A e \in BoundFields : blurred[e] => "touched" \in cls[e]


\* ------------------------------------------------- getFormData on its own
\* Specification DataSpec: a form of three text controls whose names and
\* values are drawn from small sets; the page calls getFormData on it, once.

\* The name attributes: two plain names, a name Object.prototype holds, and
\* no name.
DataMarkups ==
  {Form(<<NoAttr, NoAttr, NoAttr>>, <<1, 2, 3>>, <<"text", "text", "text">>,
        names) :
     names \in [1..3 -> {Attr(<<"a">>), Attr(<<"b">>), Attr(Lit.toString), NoAttr}]}

InitData ==
  /\ \E m \in DataMarkups, vals \in [1..3 -> FormValues] : Loaded(m, vals)
  /\ legacyDate = NaN
  /\ fileCall = NoFileCall
  /\ http = <<>>
  /\ panel = <<>>

\* The page calls getFormData(form) itself.
CallGetFormData ==
  /\ event.kind = "load"
  /\ Commit([Doc EXCEPT !.data = getFormData(Doc)], Ev("getFormData", 0))

NextData == CallGetFormData

DataSpec == InitData /\ [][NextData]_vars

\* The values of the form's entries named key, in entry order.
ValuesNamed(key) ==
  LET es == SelectSeq(FormDataEntries(Doc, 1), LAMBDA x : x.key = key)
  IN [i \in 1..Len(es) |-> es[i].value]

EntryKeys == {FormDataEntries(Doc, 1)[i].key : i \in 1..Len(FormDataEntries(Doc, 1))}

\* C11 (as claimed): getFormData returns, for every name that occurs once in
\* the form's entries, that entry's value, and for every name that occurs
\* k >= 2 times the list of all k values in entry order, whatever the values
\* are.
C11_GetFormData ==
  event.kind = "getFormData" =>
    \A key \in EntryKeys :
      /\ OwnIndex(data, key) # 0
      /\ data[OwnIndex(data, key)] =
           IF Len(ValuesNamed(key)) = 1
           THEN Single(key, ValuesNamed(key)[1])
           ELSE Array(key, ValuesNamed(key))

\* C12 (as claimed): the data a formValid signal carries has an entry for
\* every bound field evaluated in the submission, and no entry for a control
\* that is not a bound field.
C12_DataOfBoundFields ==
  (Submitted /\ emitted >= 1) =>
    /\ \A e \in BoundFields :
         markup.name[e].has /\ OwnIndex(data, markup.name[e].s) # 0
    /\ \A i \in 1..Len(data) :
         \E e \in BoundFields :
           markup.name[e].has /\ markup.name[e].s = data[i].key


\* ------------------------------------------------- validateFile on its own
\* Specification FileSpec: the page calls validateFile once, on a file and
\* an options object drawn from small sets.

MiB == 1024 * 1024

\* The file of the call. Sizes around the default limit of 10 MiB and
\* around the 1 MiB limit of FileOptions[2]. MIME types: two of the default
\* list, one outside it, and none. File names: with an extension of the
\* default list in either case, with another one, with two dots, and
\* without a dot.
InitFile ==
  /\ Loaded(Form(<<NoAttr>>, <<1>>, <<"file">>, <<NoAttr>>), << <<>> >>)
  /\ legacyDate = NaN
  /\ \E size \in {MiB - 1, MiB, MiB + 1, 2 * MiB, 10 * MiB - 1, 10 * MiB,
                   10 * MiB + 1, 12 * MiB},
        type \in {Lit.imagePng, <<"a", "u", "d", "i", "o", "/", "w", "a", "v">>,
                  Lit.applicationZip, <<>>},
        name \in { <<"a">> \o Lit.png, <<"a", ".", "P", "N", "G">>,
                   <<"a", ".", "z", "i", "p">>,
                   <<"a", ".", "p", "n", "g", ".", "z", "i", "p">>, <<"a">>,
                   <<"p", "n", "g">> },
        oi \in 1..Len(FileOptions) :
       fileCall = [file |-> [size |-> size, type |-> type, name |-> name],
                   oi |-> oi, done |-> FALSE, result |-> ResultValid]
  /\ http = <<>>
  /\ panel = <<>>

\* The page calls validateFile(file, options) itself.
CallValidateFile ==
  /\ ~fileCall.done
  /\ fileCall' = [fileCall EXCEPT
                    !.done = TRUE,
                    !.result = validateFile(fileCall.file, FileOptions[fileCall.oi])]
  /\ event' = Ev("validateFile", 0)
  /\ UNCHANGED <<markup, legacyDate, value, cls, aria, errs, focused, inits,
                 armed, fileSetup, evals, emitted, focusCalls, prevented,
                 lastEval, blurred, data, http, panel>>

FileSpec == InitFile /\ [][CallValidateFile]_vars

\* The limit in force and what the call's file is against the default lists.
LimitOfCall == MergeOptions(FileDefaults, FileOptions[fileCall.oi]).maxSize

SizeMessage(mb) == Msg("File size must not exceed {}MB", mb)

TypeListed == Includes(FileDefaults.allowedTypes, fileCall.file.type)

\* The text after the last "." of the file's name (the whole name when it
\* has none), lower-cased, with a "." before it, is in the default list.
ExtensionListed ==
  LET pieces == Split(fileCall.file.name, ".")
  IN Includes(FileDefaults.allowedExtensions,
              <<".">> \o ToLowerCase(pieces[Len(pieces)]))

DefaultCall == fileCall.done /\ fileCall.oi = 1

\* C13 (as claimed): under the default configuration validateFile returns
\* valid for every file of at most 10 MiB whose MIME type is in the default
\* list, and "File type not allowed" for every file within the limit whose
\* type is not.
C13_Original ==
  (DefaultCall /\ fileCall.file.size <= 10 * MiB) =>
    IF TypeListed THEN fileCall.result.valid
    ELSE fileCall.result = Result(FALSE, Msg("File type not allowed", <<>>))

\* C13 (as amended): under the default configuration a file of at most
\* 10 MiB whose MIME type is in the default list is valid exactly when its
\* extension is in the default extension list, and is otherwise rejected
\* with the message that lists the extensions; a file within the limit whose
\* type is not in the list is rejected with "File type not allowed".
C13_TypeThenExtension ==
  (DefaultCall /\ fileCall.file.size <= 10 * MiB) =>
    IF ~TypeListed
    THEN fileCall.result = Result(FALSE, Msg("File type not allowed", <<>>))
    ELSE IF ExtensionListed THEN fileCall.result.valid
    ELSE fileCall.result =
           Result(FALSE, Msg("Only {} files are allowed",
                             JoinComma(FileDefaults.allowedExtensions)))

\* A 2 MiB image/png file named a.png was found valid by default.
C13_Witness ==
  /\ DefaultCall
  /\ fileCall.file = [size |-> 2 * MiB, type |-> Lit.imagePng,
                      name |-> <<"a">> \o Lit.png]
  /\ fileCall.result.valid

\* C14: every file larger than the limit in force is rejected with the size
\* message, which names 10MB under the default limit, whatever its type and
\* extension; a file of exactly the limit is not rejected for its size.
C14_SizeFirst ==
  fileCall.done =>
    /\ fileCall.file.size > LimitOfCall =>
         fileCall.result =
           Result(FALSE, SizeMessage(IF fileCall.oi = 1 THEN <<"1", "0">>
                                     ELSE <<"1">>))
    /\ fileCall.file.size <= LimitOfCall =>
         (fileCall.result.valid
          \/ fileCall.result.message.tpl # SizeMessage(<<>>).tpl)

\* A file of 10 MiB + 1 bytes whose type and extension are outside the
\* default lists was rejected.
C14_Witness ==
  /\ DefaultCall
  /\ fileCall.file.size = 10 * MiB + 1
  /\ ~TypeListed /\ ~ExtensionListed
  /\ ~fileCall.result.valid


\* C15 (as claimed): validateField is total: for every rule chain and every
\* value the call returns a boolean and renders it, the field ending with
\* class valid or invalid accordingly; no exception reaches the caller.
C15_Total ==
  Called =>
    /\ evals[1].ret \in {"true", "false"}
    /\ (evals[1].ret = "true") <=> ("valid" \in cls[1])
    /\ (evals[1].ret = "false") <=> ("invalid" \in cls[1])


\* Rule k of field 1 is a match rule whose target identifier resolves to no
\* element.
MissingTarget(k) == NameOfRule(1, k) = Lit.match /\ MatchTarget(1, k) = 0

ConfigurationError == Msg("Configuration error", <<>>)

\* C16: a match rule whose target identifier resolves to no element yields,
\* for every value, an invalid result with the message "Configuration
\* error" and never throws; when it is the first rule to fail, the field is
\* rendered as for any failure: class invalid, aria-invalid true and one
\* annotation carrying the message.
C16_ConfigurationError ==
  Called =>
    \A k \in 1..Len(RulesOf(1)) :
      MissingTarget(k) =>
        /\ Outcome(1, k) = Result(FALSE, ConfigurationError)
        /\ FirstFailing(1, k) =>
             /\ evals[1].ret = "false"
             /\ evals[1].message = ConfigurationError
             /\ "invalid" \in cls[1] /\ "valid" \notin cls[1]
             /\ aria[1] = "true"
             /\ errs[markup.parent[1]] = <<ErrorElement(1, ConfigurationError)>>

\* A field bound with match:f9, no element having that id, was evaluated on
\* a non-empty value and rendered invalid.
C16_Witness ==
  /\ Called
  /\ RulesOf(1) = <<Rule1(Lit.match, IdOf(9))>>
  /\ value[1] # <<>>
  /\ evals[1].ret = "false"
  /\ "invalid" \in cls[1]


\* C17: the handling of a blur, input or submit event by the engine changes
\* the value of no bound field, whether fields pass or fail and whatever
\* preserveDataOnError is: a focus change and a submit leave every value as
\* it was, and after an input event the field holds what the user typed,
\* untrimmed, and the others what they held.
C17_ValuesUntouched ==
  [][/\ event'.kind \in {"focus", "submit"} =>
          \A e \in BoundFields : value'[e] = value[e]
     /\ event'.kind = "input" =>
          \A e \in BoundFields :
            value'[e] = IF e = event'.el THEN event'.v ELSE value[e]]_vars

\* A submit with preserveDataOnError false found a field failing whose
\* value differs from its trimmed copy.
C17_Witness ==
  /\ Submitted
  /\ Failed # {}
  /\ ~inits[1].preserveDataOnError
  /\ \E e \in Failed : value[e] # Trim(value[e])


\* ------------------------------------------------ single rules on their own
\* Specification RuleSpec: the form of ChainSpec with one rule of number,
\* minLength, maxLength or password on its first field, and values on both
\* sides of every bound and of every requirement of the password tiers; the
\* page calls validateField on the field, once.

\* number with both bounds, one bound and none; minLength and maxLength with
\* integers from -1 to 8; each of the three with a parameter that is no
\* number, and the two lengths with none; password with each tier and with
\* none.
SingleRules ==
  { Lit.number,
    RuleN(Lit.number, << <<"1">>, <<"3">> >>),
    RuleN(Lit.number, << <<"0">>, <<"1", "0", "0">> >>),
    RuleN(Lit.number, << <<"-", "1">>, <<"-", "1">> >>),
    RuleN(Lit.number, << <<"2">> >>),
    RuleN(Lit.number, << <<>>, <<"2">> >>),
    RuleN(Lit.number, << <<"x">> >>),
    RuleN(Lit.number, << <<"x">>, <<"y">> >>),
    Lit.minLength, Lit.maxLength,
    RuleN(Lit.minLength, << <<"x">> >>), RuleN(Lit.maxLength, << <<"x">> >>),
    Lit.password, RuleN(Lit.password, <<Lit.weak>>),
    RuleN(Lit.password, <<Lit.medium>>), RuleN(Lit.password, <<Lit.strong>>) }
  \cup {RuleN(name, <<n>>) :
          name \in {Lit.minLength, Lit.maxLength},
          n \in {<<"-", "1">>, <<"0">>, <<"1">>, <<"2">>, <<"3">>, <<"8">>}}

\* The values of the field. Integers written in decimal; letters, from none
\* to eight of them; passwords that have and lack each of: a lower-case
\* letter, an upper-case letter, a digit, a symbol, 8 characters, 12
\* characters.
RuleValues ==
  { <<"0">>, <<"1">>, <<"2">>, <<"3">>, <<"4">>, <<"5", "0">>,
    <<"1", "5", "0">>, <<"-", "1">>,
    <<>>, <<"a">>, <<"a", "b">>, <<"a", "b", "c">>,
    <<"a", "b", "c", "d", "e">>, <<"a", "b", "c", "d", "e", "f">>,
    <<"a", "b", "c", "d", "e", "f", "g">>,
    <<"a", "b", "c", "d", "e", "f", "g", "h">>,
    <<"a", "b", "c", "d", "e", "f", "g", "1">>,
    <<"A", "b", "c", "d", "e", "f", "g", "1">>,
    <<"A", "b", "c", "d", "e", "f", "1">>,
    <<"A", "B", "C", "D", "E", "F", "G", "1">>,
    <<"A", "b", "c", "d", "e", "f", "g", "h">>,
    <<"A", "b", "c", "d", "e", "f", "g", "h", "1", "!", "a", "b">>,
    <<"A", "b", "c", "d", "e", "f", "g", "h", "1", "a", "b", "c">>,
    <<"A", "b", "c", "d", "e", "f", "g", "1", "!">>,
    <<"A", "b", "c", "d", "e", "f", "g", "h", "1", "#", "a", "b">>,
    <<"a", "b", "c", "d", "e", "f", "g", "h", "1", "!", "a", "b">>,
    <<"A", "B", "C", "D", "E", "F", "G", "H", "1", "!", "A", "B">>,
    <<"A", "b", "c", "d", "e", "f", "g", "h", "i", "!", "a", "b">> }

InitRule ==
  /\ \E r \in SingleRules,
        v1 \in RuleValues :
       Loaded(Form(<<Attr(r), NoAttr>>, <<1, 2>>, <<"text", "text">>,
                   <<Attr(<<"a">>), Attr(<<"b">>)>>),
              <<v1, <<>>>>)
  /\ legacyDate = NaN
  /\ fileCall = NoFileCall
  /\ http = <<>>
  /\ panel = <<>>

RuleSpec == InitRule /\ [][NextChain]_vars


\* The one rule of field 1, split at ":", and the value validateField reads.
TheRule == Split(RulesOf(1)[1], ":")

TheValue == Trim(value[1])

\* validateField was called on field 1, whose chain is one rule named name.
RuleIs(name) == Called /\ Len(RulesOf(1)) = 1 /\ NameOfRule(1, 1) = name

\* s is an integer in decimal, and the integer it is.
IsInteger(s) ==
  /\ s # <<>>
  /\ IF Head(s) = "-" THEN Tail(s) # <<>> /\ IsDigits(Tail(s)) ELSE IsDigits(s)

IntOf(s) == IF Head(s) = "-" THEN 0 - DigitsValue(Tail(s)) ELSE DigitsValue(s)

\* The k-th parameter of the rule is written and not empty.
ParamGiven(k) == Len(TheRule) > k /\ TheRule[k + 1] # <<>>

\* Every parameter of the rule that is given is an integer.
ParamsNumeric == \A k \in 1..(Len(TheRule) - 1) : ParamGiven(k) => IsInteger(TheRule[k + 1])

\* C18: number:min:max, with numeric bounds, on a non-empty numeric value v
\* is valid exactly when min <= v <= max, bounds included; v < min gives "Must be at least <min>",
\* v > max gives "Must not exceed <max>"; a bound that is not given imposes
\* nothing.
C18_NumberRange ==
  (RuleIs(Lit.number) /\ IsInteger(TheValue) /\ ParamsNumeric) =>
    IF ParamGiven(1) /\ IntOf(TheValue) < IntOf(TheRule[2])
    THEN /\ evals[1].ret = "false"
         /\ evals[1].message = Msg("Must be at least {}", TheRule[2])
    ELSE IF ParamGiven(2) /\ IntOf(TheValue) > IntOf(TheRule[3])
    THEN /\ evals[1].ret = "false"
         /\ evals[1].message = Msg("Must not exceed {}", TheRule[3])
    ELSE evals[1].ret = "true"

\* number:0:100 on "150" gave "Must not exceed 100".
C18_Witness ==
  /\ RuleIs(Lit.number)
  /\ TheRule = <<Lit.number, <<"0">>, <<"1", "0", "0">> >>
  /\ TheValue = <<"1", "5", "0">>
  /\ evals[1].message = Msg("Must not exceed {}", <<"1", "0", "0">>)

\* A character that is no letter and no digit.
HasSymbol(s) == \E i \in 1..Len(s) : s[i] \notin Lower \cup Upper \cup Digit

\* The tier of a password rule: medium when none is written.
Tier == IF Len(TheRule) = 1 THEN Lit.medium ELSE TheRule[2]

MeetsTier(tier, s) ==
  CASE tier = Lit.weak -> Len(s) >= 6
    [] tier = Lit.medium ->
         Len(s) >= 8 /\ HasUpper(s) /\ HasLower(s) /\ HasDigit(s)
    [] tier = Lit.strong ->
         Len(s) >= 12 /\ HasUpper(s) /\ HasLower(s) /\ HasDigit(s) /\ HasSymbol(s)

\* C19 (as claimed): on a non-empty value password:<tier> passes exactly
\* when the value meets the tier: weak 6 characters; medium 8 characters
\* with an upper-case letter, a lower-case letter and a digit; strong 12
\* characters with these and a symbol; no tier written is medium.
C19_PasswordTiers ==
  (RuleIs(Lit.password) /\ TheValue # <<>>
   /\ Tier \in {Lit.weak, Lit.medium, Lit.strong}) =>
    (evals[1].ret = "true" <=> MeetsTier(Tier, TheValue))

\* C20: on a non-empty trimmed value minLength:N passes exactly when the
\* length is at least N and fails with "Must be at least N characters";
\* maxLength:N passes exactly when the length is at most N and fails with
\* "Must not exceed N characters"; a value of length N passes both.
C20_LengthBounds ==
  (Called /\ Len(RulesOf(1)) = 1 /\ TheValue # <<>>
   /\ Len(TheRule) = 2 /\ IsInteger(TheRule[2])) =>
    /\ NameOfRule(1, 1) = Lit.minLength =>
         IF Len(TheValue) >= IntOf(TheRule[2]) THEN evals[1].ret = "true"
         ELSE /\ evals[1].ret = "false"
              /\ evals[1].message =
                   Msg("Must be at least {} characters", TheRule[2])
    /\ NameOfRule(1, 1) = Lit.maxLength =>
         IF Len(TheValue) <= IntOf(TheRule[2]) THEN evals[1].ret = "true"
         ELSE /\ evals[1].ret = "false"
              /\ evals[1].message =
                   Msg("Must not exceed {} characters", TheRule[2])

\* maxLength:8 passed a value of exactly eight characters.
C20_Witness ==
  /\ RuleIs(Lit.maxLength)
  /\ TheRule = <<Lit.maxLength, <<"8">> >>
  /\ Len(TheValue) = 8
  /\ evals[1].ret = "true"


\* The numeric parameter k of the rule is missing, or is no number.
ParamNotANumber(k) == ~ParamGiven(k) \/ ~IsInteger(TheRule[k + 1])

\* C21 (as claimed): a minLength, maxLength or number rule whose numeric
\* parameter is missing or is no number passes every well-formed value: any
\* text for the two lengths, any number for number.
C21_NaNPermissive ==
  /\ (RuleIs(Lit.minLength) \/ RuleIs(Lit.maxLength)) /\ ParamNotANumber(1)
       => evals[1].ret = "true"
  /\ (RuleIs(Lit.number) /\ ParamNotANumber(1) /\ ParamNotANumber(2)
      /\ IsInteger(TheValue))
       => evals[1].ret = "true"

\* number is as claimed: with no numeric bound every number passes.
C21_NumberPermissive ==
  (RuleIs(Lit.number) /\ ParamNotANumber(1) /\ ParamNotANumber(2)
   /\ IsInteger(TheValue))
    => evals[1].ret = "true"

\* The two lengths are not: a non-empty value fails, whatever its length.
C21_LengthRejects ==
  ((RuleIs(Lit.minLength) \/ RuleIs(Lit.maxLength)) /\ ParamNotANumber(1)
   /\ TheValue # <<>>)
    => /\ evals[1].ret = "false"
       /\ evals[1].message.arg = <<"N", "a", "N">>


\* ------------------------------------------------------------ event wiring

\* The form was initialized once, with this validateOnBlur and
\* validateOnInput.
Wired(onBlur, onInput) ==
  /\ Len(inits) = 1
  /\ inits[1].validateOnBlur = onBlur
  /\ inits[1].validateOnInput = onInput

\* The presentation of the document is what it was.
SameRendering == cls' = cls /\ aria' = aria /\ errs' = errs

\* C22: with validateOnBlur true and validateOnInput false, every loss of
\* focus of a bound field evaluates it and no input event evaluates
\* anything; with validateOnInput true an input event evaluates its field,
\* and nothing else, only if the field is touched, and on a field that did
\* not lose focus it evaluates nothing and renders nothing.
C22_EventWiring ==
  [][/\ (Wired(TRUE, FALSE) /\ focused \in BoundFields /\ focused' # focused)
          => focused \in {evals'[k].field : k \in 1..Len(evals')}
     /\ (Wired(TRUE, FALSE) /\ event'.kind = "input")
          => evals' = <<>> /\ SameRendering
     /\ (Len(inits) = 1 /\ inits[1].validateOnInput /\ event'.kind = "input")
          => /\ {evals'[k].field : k \in 1..Len(evals')} \subseteq {event'.el}
             /\ evals' # <<>> => "touched" \in cls[event'.el]
             /\ ~blurred[event'.el] => evals' = <<>> /\ SameRendering]_vars

\* With validateOnInput true, an input event on a bound field that did not
\* lose focus evaluated nothing.
C22_Witness ==
  /\ Len(inits) = 1 /\ inits[1].validateOnInput
  /\ event.kind = "input"
  /\ event.el \in BoundFields
  /\ ~blurred[event.el]
  /\ evals = <<>>


\* -------------------------------------------------------------------- reset

\* C23: a step of resetForm on the form leaves every bound field without
\* the classes valid, invalid, touched and has-success-icon and without
\* aria-invalid, and the form without any error-message element; a step of
\* resetForm on an id no element has leaves the document as it was.
C23_ResetClears ==
  [][event'.kind = "resetForm" =>
       IF event'.found
       THEN /\ \A e \in BoundFields :
                 /\ cls'[e] \cap {"valid", "invalid", "touched", "has-success-icon"} = {}
                 /\ aria'[e] = "none"
            /\ \A p \in DOMAIN errs' : errs'[p] = <<>>
       ELSE UNCHANGED <<markup, value, cls, aria, errs, focused, inits, armed,
                        fileSetup, lastEval, blurred>>]_vars

\* The form was reset after a bound field had lost focus and been rendered
\* (its once-only blur listener is spent): the field carries no class.
C23_Witness ==
  /\ event.kind = "resetForm" /\ event.found
  /\ inits # <<>> /\ inits[1].validateOnBlur
  /\ \E e \in BoundFields : armed[e] = {} /\ cls[e] = {}


\* -------------------------------------------------------- success indicator

\* C26 (as claimed): a field rendered invalid does not carry the success
\* indicator, and a field carries it only if its last evaluation passed and
\* the form was initialized with showSuccessIndicator.
C26_SuccessIndicator ==
  \A e \in BoundFields :
    /\ "invalid" \in cls[e] => "has-success-icon" \notin cls[e]
    /\ "has-success-icon" \in cls[e] =>
         /\ lastEval[e].ret = "true"
         /\ \E i \in 1..Len(inits) : inits[i].showSuccessIndicator

\* What the code keeps: the indicator is on a field only if the form was
\* initialized with showSuccessIndicator, and it comes off only by a reset.
C26_OnlyWhenEnabled ==
  \A e \in BoundFields :
    "has-success-icon" \in cls[e] =>
      \E i \in 1..Len(inits) : inits[i].showSuccessIndicator


\* ------------------------------------------------- initForm called again
\* Specification RepeatSpec: the form of RuleSpec, whose one bound field
\* holds a value; the page calls initForm on it up to MaxRepeat times, and
\* the user submits it.
RepeatSpec ==
  InitRule /\ [][\/ \E oi \in 1..Len(InitOptions) :
                      Len(inits) < MaxRepeat /\ InitForm(TRUE, oi)
                 \/ UserSubmit]_vars

\* The calls of validateField on field e that the last event made.
CallsOn(e) == {k \in 1..Len(evals) : evals[k].field = e}

\* C27 (as claimed): however many times initForm was called on the form, a
\* submit event evaluates every bound field exactly once and emits at most
\* one formValid.
C27_SubmitOnce ==
  Submitted =>
    /\ \A e \in BoundFields : Cardinality(CallsOn(e)) = 1
    /\ emitted <= 1

\* What the code does: every initForm call adds a submit listener of its
\* own, so a submit evaluates each bound field once per call and emits
\* formValid once per call when the fields pass.
C27_OncePerInit ==
  Submitted =>
    /\ \A e \in BoundFields : Cardinality(CallsOn(e)) = Len(inits)
    /\ emitted \in {0, Len(inits)}


\* --------------------------------------------------------------- server.js
\* Specification ServerSpec: one request to POST /api/payments/webhook or to
\* POST /api/locations/reverse-geocode goes through the middleware that
\* reads bodies and then through the handler of its route.

\* A value of a parsed JSON body: a number (t = "num", n), a string
\* (t = "str", s), true or false (t = "bool", n = 1 or 0), null, or
\* undefined for a key the body does not have.
Json(t, n, s) == [t |-> t, n |-> n, s |-> s]

\* !v
Falsy(v) ==
  CASE v.t = "num" -> v.n = 0
    [] v.t = "str" -> v.s = <<>>
    [] v.t = "bool" -> v.n = 0
    [] OTHER -> TRUE

\* ToNumber(v), as isNaN and the relational operators apply it.
ToNumber(v) ==
  CASE v.t \in {"num", "bool"} -> Num(v.n)
    [] v.t = "null" -> Num(0)
    [] v.t = "undef" -> NaN
    [] v.t = "str" ->
         IF Trim(v.s) = <<>> THEN Num(0)
         ELSE IF IsDigits(IF Head(Trim(v.s)) \in {"-", "+"}
                          THEN Tail(Trim(v.s)) ELSE Trim(v.s))
         THEN ParseDecimal(v.s)
         ELSE NaN

\* The latitudes and longitudes of the requests: numbers on both sides of
\* and on every limit, zero, strings, null, true, and a missing key.
Coordinates ==
  {Json("num", n, <<>>) : n \in {-181, -180, -91, -90, 0, 45, 90, 91, 180, 181}}
  \cup {Json("str", 0, s) : s \in {<<>>, <<"4", "5">>, <<"a">>}}
  \cup {Json("null", 0, <<>>), Json("undef", 0, <<>>), Json("bool", 1, <<>>)}

\* The requests: for the webhook, whether the stripe-signature header is a
\* valid signature of the bytes of the body and the type of the event in
\* the body; for reverse-geocode, the two coordinates, whether
\* GOOGLE_MAPS_API_KEY is set and what the geocoding API will answer. The
\* rest is the state of a request that has just arrived.
Requests ==
  [route : {"/api/payments/webhook"},
   contentType : {"application/json", "text/plain"},
   signed : BOOLEAN,
   type : {"checkout.session.completed", "payment_intent.succeeded",
           "payment_intent.payment_failed", "charge.refunded"},
   latitude : {Json("undef", 0, <<>>)}, longitude : {Json("undef", 0, <<>>)},
   apiKey : {TRUE}, geo : {"OK"},
   stage : {"received"}, body : {"stream"}, status : {0}, reply : {""},
   handled : {FALSE}, validated : {FALSE}, geocoded : {FALSE}]
  \cup
  [route : {"/api/locations/reverse-geocode"},
   contentType : {"application/json", "text/plain"},
   signed : {FALSE}, type : {""},
   latitude : Coordinates, longitude : Coordinates,
   apiKey : BOOLEAN, geo : {"OK", "ZERO_RESULTS", "error"},
   stage : {"received"}, body : {"stream"}, status : {0}, reply : {""},
   handled : {FALSE}, validated : {FALSE}, geocoded : {FALSE}]

InitServer ==
  /\ Loaded(Form(<<>>, <<>>, <<>>, <<>>), <<>>)
  /\ legacyDate = NaN
  /\ fileCall = NoFileCall
  /\ panel = <<>>
  /\ http \in Requests

\* A step of the server: the request and response become h.
Step(h) ==
  /\ http' = h
  /\ UNCHANGED <<markup, legacyDate, value, cls, aria, errs, focused, inits,
                 armed, fileSetup, evals, emitted, focusCalls, prevented,
                 lastEval, blurred, data, fileCall, event, panel>>

\* A step of the payments page: the run and the loader become p.
PanelStep(p) ==
  /\ panel' = p
  /\ UNCHANGED <<markup, legacyDate, value, cls, aria, errs, focused, inits,
                 armed, fileSetup, evals, emitted, focusCalls, prevented,
                 lastEval, blurred, data, fileCall, event, http>>

\* res.status(status).send(reply) or .json(reply)
Send(h, status, reply) ==
  [h EXCEPT !.stage = "done", !.status = status, !.reply = reply]

\* app.use(bodyParser.json()): every request whose content type is
\* application/json has its body read and parsed here, and is marked as
\* parsed (req._body); any other leaves with the body {}. The urlencoded
\* parser that follows reads neither content type.
JsonParser ==
  /\ http.stage = "received"
  /\ Step([http EXCEPT
             !.stage = "routed",
             !.body = IF http.contentType = "application/json"
                      THEN "parsed" ELSE "empty"])

\* bodyParser.raw({ type: 'application/json' }) on the webhook route: a body
\* already parsed is passed on as it is (if (req._body) next()); otherwise a
\* body of the content type is read into a Buffer.
RawParser ==
  /\ http.stage = "routed"
  /\ http.route = "/api/payments/webhook"
  /\ Step([http EXCEPT
             !.stage = "handler",
             !.body = IF @ = "parsed" THEN @
                      ELSE IF http.contentType = "application/json" THEN "raw"
                      ELSE @])

\* stripe.webhooks.constructEvent(req.body, sig, webhookSecret) returns the
\* event: the payload is the bytes that were signed (a string or Buffer, not
\* an object made from them) and the header is a signature of them;
\* otherwise it throws.
constructEvent(body, signed) == body = "raw" /\ signed

Webhook ==
  /\ http.stage = "handler"
  /\ Step(IF ~constructEvent(http.body, http.signed)
          THEN Send(http, 400, "Webhook Error")
          ELSE Send([http EXCEPT !.handled = TRUE], 200, "received"))

\* axios.get(geocode) and what the handler answers to it.
Geocode(h) ==
  CASE h.geo = "OK" -> Send([h EXCEPT !.geocoded = TRUE], 200, "address")
    [] h.geo = "ZERO_RESULTS" ->
         Send([h EXCEPT !.geocoded = TRUE], 400, "Location not found")
    [] OTHER ->
         Send([h EXCEPT !.geocoded = TRUE], 500, "Failed to reverse geocode location")

\* const { latitude, longitude } = req.body, and the handler on them.
ReverseGeocodeOn(h, latitude, longitude) ==
  IF Falsy(latitude) \/ Falsy(longitude)
  THEN Send(h, 400, "Latitude and longitude are required")
  ELSE IF \/ ToNumber(latitude).nan \/ ToNumber(longitude).nan
          \/ NumLt(ToNumber(latitude), Num(-90))
          \/ NumGt(ToNumber(latitude), Num(90))
          \/ NumLt(ToNumber(longitude), Num(-180))
          \/ NumGt(ToNumber(longitude), Num(180))
  THEN Send(h, 400, "Invalid coordinates")
  ELSE IF ~h.apiKey
  THEN Send([h EXCEPT !.validated = TRUE], 500, "Google Maps API key not configured")
  ELSE Geocode([h EXCEPT !.validated = TRUE])

ReverseGeocode ==
  /\ http.stage = "routed"
  /\ http.route = "/api/locations/reverse-geocode"
  /\ Step(IF http.body = "parsed"
          THEN ReverseGeocodeOn(http, http.latitude, http.longitude)
          ELSE ReverseGeocodeOn(http, Json("undef", 0, <<>>), Json("undef", 0, <<>>)))

ServerSpec ==
  InitServer /\ [][JsonParser \/ RawParser \/ Webhook \/ ReverseGeocode]_vars

\* The request is one to the route and has been answered.
Answered(route) == http.route = route /\ http.stage = "done"

\* C24 (as claimed): a webhook request with a JSON body and a valid
\* signature is verified, handled and answered 200 {received: true}; a
\* request answered 400 is one whose signature is not valid, and its event
\* is not handled.
C24_SignedAcknowledged ==
  Answered("/api/payments/webhook") =>
    /\ (http.contentType = "application/json" /\ http.signed) =>
         http.status = 200 /\ http.reply = "received" /\ http.handled
    /\ http.status = 400 => ~http.signed /\ ~http.handled

\* What the code does: no webhook request is verified.
C24_NeverVerified ==
  Answered("/api/payments/webhook") => http.status = 400 /\ ~http.handled

\* v is a number from lo to hi.
NumberIn(v, lo, hi) == v.t = "num" /\ lo <= v.n /\ v.n <= hi

\* C25 (as claimed): a reverse-geocode request passes the validation of its
\* input exactly when latitude is a number in [-90, 90] and longitude a
\* number in [-180, 180], zero included; any other request is answered 400
\* and no geocoding call is made for it.
C25_CoordinatesAccepted ==
  (Answered("/api/locations/reverse-geocode")
   /\ http.contentType = "application/json") =>
    /\ http.validated <=> /\ NumberIn(http.latitude, -90, 90)
                          /\ NumberIn(http.longitude, -180, 180)
    /\ ~http.validated => http.status = 400 /\ ~http.geocoded

\* What the code does with numbers: the claim with zero left out.
C25_NonZeroNumbers ==
  (Answered("/api/locations/reverse-geocode")
   /\ http.contentType = "application/json"
   /\ http.latitude.t = "num" /\ http.longitude.t = "num") =>
    /\ http.validated <=> /\ NumberIn(http.latitude, -90, 90)
                          /\ NumberIn(http.longitude, -180, 180)
                          /\ http.latitude.n # 0 /\ http.longitude.n # 0
    /\ ~http.validated => http.status = 400 /\ ~http.geocoded


\* ------------------------------------------------------------- payments.js
\* Specification PanelSpec: one run of displayTransactionHistory on a page
\* that has or lacks the container and the loader element; the request of
\* getTransactionHistory settles, to one of Replies.

\* What fetch and response.json() come to: fetch rejects, the response is
\* not ok, its body is no JSON, or it is an object with or without the key
\* transactions; a transaction renders or (amount missing) makes
\* renderTransaction throw.
Replies ==
  [kind : {"rejected", "notOk", "badJson"}, has : {FALSE}, txns : {<<>>}]
  \cup [kind : {"ok"}, has : {FALSE}, txns : {<<>>}]
  \cup [kind : {"ok"}, has : {TRUE},
        txns : UNION {[1..n -> {"txn", "noAmount"}] : n \in 0..MaxTxn}]

InitPanel ==
  /\ Loaded(Form(<<>>, <<>>, <<>>, <<>>), <<>>)
  /\ legacyDate = NaN
  /\ fileCall = NoFileCall
  /\ http = <<>>
  /\ panel \in [pc : {"idle"}, loader : {"absent", "none"}, container : BOOLEAN,
                reply : Replies, html : {"before"}, toast : {FALSE}]

\* showLoading: the loader is created if the page has none, and displayed.
showLoading(p) == [p EXCEPT !.loader = "flex"]

\* hideLoading: if (loader) loader.style.display = 'none'
hideLoading(p) == [p EXCEPT !.loader = IF @ = "absent" THEN @ ELSE "none"]

\* displayTransactionHistory up to its await: the loader is shown and the
\* request is sent.
displayTransactionHistory ==
  /\ panel.pc = "idle"
  /\ PanelStep(showLoading([panel EXCEPT !.pc = "awaiting"]))

\* The rest of displayTransactionHistory, once the request has settled.
\* catch: showError(...), hideLoading(), for a request that failed, for
\* transactions undefined (.length throws) and for a transaction that
\* does not render.
TransactionsSettled ==
  /\ panel.pc = "awaiting"
  /\ PanelStep(
       LET p == [panel EXCEPT !.pc = "done"]
           caught == hideLoading([p EXCEPT !.toast = TRUE])
       IN IF p.reply.kind # "ok" THEN caught
          ELSE IF ~p.container THEN p
          ELSE IF ~p.reply.has THEN caught
          ELSE IF p.reply.txns = <<>>
            THEN hideLoading([p EXCEPT !.html = "no-transactions"])
          ELSE IF \E i \in 1..Len(p.reply.txns) : p.reply.txns[i] = "noAmount"
            THEN caught
          ELSE hideLoading([p EXCEPT !.html = "transaction-list"]))

\* A request that was sent settles.
PanelSpec ==
  /\ InitPanel
  /\ [][displayTransactionHistory \/ TransactionsSettled]_vars
  /\ WF_vars(TransactionsSettled)

\* C28 (as claimed): a loader that is shown is hidden again, on every path
\* of the run.
C28_LoaderHidden == (panel.loader = "flex") ~> (panel.loader = "none")

\* What the code does: a run ends with the loader shown exactly when the
\* request succeeded and the page has no container.
C28_ShownWithoutContainer ==
  panel.pc = "done" =>
    (panel.loader = "flex" <=> (panel.reply.kind = "ok" /\ ~panel.container))

=============================================================================
